---- MODULE Spec2Model ----
(***************************************************************************)
(* A model of vumi's sandbox application worker                            *)
(* (vumi/application/sandbox.py): the SandboxProtocol process adapter, the *)
(* SandboxApi command dispatcher, the MultiDeferred signals, the run       *)
(* orchestration of Sandbox._process_in_sandbox and the RedisResource      *)
(* key-value handlers.                                                     *)
(*                                                                         *)
(* Strings of the program (command names, lines, byte batches) are         *)
(* sequences of one-character tokens, so that splitting on "\n" and        *)
(* partitioning on "." are computed the way the code computes them.        *)
(***************************************************************************)
EXTENDS Integers, Sequences, FiniteSets, TLC

\* ------------------------------------------------------------------ bounds

\* Lines the child writes to stdout in one run, at most.
MaxLines == 2
\* Awaiters that observers other than the run obtain from started()/done().
MaxObservers == 2
\* Characters in the name of a command given to the dispatcher, at most.
MaxCmdLen == 3
\* The receive quota of the modelled run, in bytes (config recv_limit).
RecvLimit == 10

\* ------------------------------------------------------- strings and lines

NL == "\n"
SEP == "."

RECURSIVE Concat(_)
\* "".join(parts)
Concat(parts) ==
    IF parts = <<>> THEN <<>> ELSE Head(parts) \o Concat(Tail(parts))

RECURSIVE split(_)
\* data.split("\n"): the parts between newlines, at least one part.
split(data) ==
    IF data = <<>> THEN << <<>> >>
    ELSE LET rest == split(Tail(data)) IN
         IF Head(data) = NL THEN << <<>> >> \o rest
         ELSE << <<Head(data)>> \o rest[1] >> \o Tail(rest)

RECURSIVE partition_rfirst(_)
\* The mutant of partition: the split is made at the last separator.
partition_rfirst(cmd) ==
    IF cmd = <<>> THEN [head |-> <<>>, sep |-> <<>>, tail |-> <<>>]
    ELSE LET n == Len(cmd)
             r == partition_rfirst(SubSeq(cmd, 1, n - 1)) IN
         IF cmd[n] = SEP
         THEN [head |-> SubSeq(cmd, 1, n - 1), sep |-> <<SEP>>, tail |-> <<>>]
         ELSE IF r.sep = <<>>
              THEN [head |-> cmd, sep |-> <<>>, tail |-> <<>>]
              ELSE [r EXCEPT !.tail = @ \o <<cmd[n]>>]

RECURSIVE partition(_)
\* cmd.partition('.'): (head, sep, tail) split at the first separator; when
\* there is none, (cmd, '', '').
partition(cmd) ==
    IF cmd = <<>> THEN [head |-> <<>>, sep |-> <<>>, tail |-> <<>>]
    ELSE IF Head(cmd) = SEP
         THEN [head |-> <<>>, sep |-> <<SEP>>, tail |-> Tail(cmd)]
         ELSE LET r == partition(Tail(cmd)) IN
              [r EXCEPT !.head = <<Head(cmd)>> \o @]

\* ---------------------------------------------------------------- commands

\* cmd_id values a child puts in its commands.
CmdIds == {"1", "2"}
\* The cmd_id SandboxCommand.generate_id gives a command built without one.
GeneratedId == "uuid"
\* Characters of command names.
CmdChars == {"a", "b", SEP, "i", "g"}
\* A byte that belongs to no encoding of a command.
Garbage == "!"

UNKNOWN == <<"unknown">>

\* SandboxCommand(cmd=..., cmd_id=..., reply=...): process_fields fills in the
\* defaults of the fields not given.
SandboxCommand(cmd, cmd_id, reply) ==
    [cmd |-> cmd, cmd_id |-> cmd_id, reply |-> reply, success |-> TRUE,
     line |-> <<>>]

\* command.to_json(): the line form of a command, the cmd_id then the name.
to_json(command) == <<command.cmd_id>> \o command.cmd

\* Whether SandboxCommand.from_json(line) returns (it raises otherwise).
from_json_ok(line) ==
    /\ Len(line) >= 1
    /\ line[1] \in CmdIds
    /\ \A k \in 2..Len(line) : line[k] \in CmdChars

\* SandboxCommand.from_json(line), for a line it accepts.
from_json(line) == SandboxCommand(Tail(line), line[1], FALSE)

\* The mutant of _parse_command: the parse failure is not caught and the
\* line yields no command.
parse_command_raising(line) ==
    IF from_json_ok(line) THEN [raised |-> FALSE, command |-> from_json(line)]
    ELSE [raised |-> TRUE, command |-> SandboxCommand(<<>>, GeneratedId, FALSE)]

\* SandboxProtocol._parse_command
parse_command(line) ==
    IF from_json_ok(line) THEN [raised |-> FALSE, command |-> from_json(line)]
    ELSE [raised |-> FALSE,
          command |-> [SandboxCommand(UNKNOWN, GeneratedId, FALSE)
                           EXCEPT !.line = line]]

\* --------------------------------------------------------------- resources

\* The resources of the worker's configuration (SandboxResources.resources):
\* the name each is registered under and its class.
resources ==
    (<<"a">> :> "LoggingResource") @@ (<<"b">> :> "RedisResource")
        @@ (<<"j">> :> "JsSandboxResource")

\* SandboxApi.fallback_resource is a plain SandboxResource named "fallback".
fallback_resource == "SandboxResource"

\* The handle_<verb> methods each resource class defines.
handlers ==
    [LoggingResource |-> {<<"i">>},
     RedisResource |-> {<<"g">>},
     JsSandboxResource |-> {},
     SandboxResource |-> {}]

\* ------------------------------------------------------------------ values

\* MultiDeferred.NOT_FIRED
NOT_FIRED == [t |-> "NOT_FIRED", n |-> 0]
\* The value connectionMade fires started with: the protocol itself.
Protocol == [t |-> "protocol", n |-> 0]
\* Failure(SandboxError("Process failed to start."))
StartFailure == [t |-> "SandboxError", n |-> 0]
\* The status of a run that has not returned, and Python's None.
Pending == [t |-> "pending", n |-> 0]
None == [t |-> "None", n |-> 0]
Status(n) == [t |-> "status", n |-> n]

\* Exit codes a child may end with, and the signal kill() sends.
ExitCodes == {0, 1}
\* The reasons Twisted hands to processEnded: ProcessDone for a exit with
\* code 0, ProcessTerminated for a non-zero exit code or a signal.
ProcessDone == [cls |-> "ProcessDone", status |-> 0, signal |-> FALSE]
ProcessTerminated(code, sig) ==
    [cls |-> "ProcessTerminated", status |-> code, signal |-> sig]
NoReason == [cls |-> "None", status |-> 0, signal |-> FALSE]
Reasons ==
    {ProcessDone} \cup {ProcessTerminated(c, FALSE) : c \in ExitCodes \ {0}}
        \cup {ProcessTerminated(0, TRUE)}
\* A Failure wrapping the reason of a process that did not end with ProcessDone.
Failure(reason) ==
    [t |-> IF reason.signal THEN "signal" ELSE "exitcode", n |-> reason.status]
IsFailure(v) == v.t \in {"SandboxError", "signal", "exitcode"}

\* ---------------------------------------------------- the key-value store

\* keys_per_user of the RedisResource under test.
KeysPerUser == 1
\* The commands one session sends to the store in a run of the model.
MaxCalls == 4
\* The handlers of the store that may be waiting for it at once.
MaxInFlight == 2
\* The SandboxProtocols built with one api after the first.
MaxRebinds == 2

SandboxIds == { <<"s1">> }
\* The key names a session uses: one more than it may store.
Keys == { [j \in 1..i |-> "k"] : i \in 1..(KeysPerUser + 1) }

\* "#".join(parts)
RECURSIVE join(_)
join(parts) ==
    IF Len(parts) = 0 THEN <<>>
    ELSE IF Len(parts) = 1 THEN parts[1]
    ELSE parts[1] \o <<"#">> \o join(Tail(parts))

\* RedisResource._count_key
count_key(sandbox_id) == join(<< <<"count">>, sandbox_id >>)
\* RedisResource._sandboxed_key
sandboxed_key(sandbox_id, key) == join(<< <<"sandboxes">>, sandbox_id, key >>)

StoreKeys ==
    {count_key(id) : id \in SandboxIds}
        \cup {sandboxed_key(id, k) : id \in SandboxIds, k \in Keys}

\* What the store holds under a key: nothing, or a string that is either
\* the digits of an integer or a quoted JSON string.
Nil == [kind |-> "nil", n |-> 0, s |-> ""]
Digits(n) == [kind |-> "digits", n |-> n, s |-> ""]
Quoted(str) == [kind |-> "quoted", n |-> 0, s |-> str]

\* The Python values of a command's fields.
PyNone == [t |-> "None", n |-> 0, s |-> ""]
PyInt(n) == [t |-> "int", n |-> n, s |-> ""]
PyStr(str) == [t |-> "unicode", n |-> 0, s |-> str]

\* json.dumps and json.loads, on the values above.
json_dumps(value) ==
    IF value.t = "int" THEN Digits(value.n) ELSE Quoted(value.s)
json_loads(raw) ==
    IF raw.kind = "digits" THEN PyInt(raw.n) ELSE PyStr(raw.s)

\* The values the session's set commands carry, and the amount field of its
\* incr commands: absent, or 2.
Values == {PyInt(1), PyStr("x")}
Amounts == { {}, {2} }

\* The answer of the store to one call: ok is false when it raised.
Answer(ok, n, v) == [ok |-> ok, n |-> n, v |-> v]

\* The store's calls, each giving the store after it and its answer.
redis_exists(db, key) ==
    [db |-> db, ret |-> Answer(TRUE, IF db[key] # Nil THEN 1 ELSE 0, Nil)]
redis_get(db, key) == [db |-> db, ret |-> Answer(TRUE, 0, db[key])]
redis_set(db, key, raw) ==
    [db |-> [db EXCEPT ![key] = raw], ret |-> Answer(TRUE, 0, Nil)]
redis_delete(db, key) ==
    [db |-> [db EXCEPT ![key] = Nil],
     ret |-> Answer(TRUE, IF db[key] # Nil THEN 1 ELSE 0, Nil)]
redis_incr(db, key, amount) ==
    IF db[key].kind = "quoted"
    THEN [db |-> db, ret |-> Answer(FALSE, 0, Nil)]
    ELSE [db |-> [db EXCEPT ![key] = Digits(db[key].n + amount)],
          ret |-> Answer(TRUE, db[key].n + amount, Nil)]

\* One call of a handler of RedisResource: the command, the yield it waits
\* at (pc), what the store answered there (ret) and the reply it returned;
\* before is history: what the store held when the handler was called.
Call(op, sandbox_id, key, value, amount) ==
    [op |-> op, sandbox_id |-> sandbox_id, key |-> key, value |-> value,
     amount |-> amount, pc |-> "start", ret |-> Answer(TRUE, 0, Nil),
     reply |-> {}, before |-> [k \in StoreKeys |-> Nil]]
Idle == [Call("none", <<>>, <<>>, PyNone, {}) EXCEPT !.pc = "idle"]

\* command.get('amount', 1)
get_amount(command) ==
    IF command.amount = {} THEN 1 ELSE CHOOSE a \in command.amount : TRUE

\* -------------------------------------------------------------- BaseWorker

\* The middlewares a worker's config may name.
MaxMiddlewares == 2
\* The connectors a worker's setup_connectors may set up.
MaxConnectors == 2
\* The calls of setup_connector a worker makes after it has started.
MaxSetups == 2
\* The messages a worker consumes or sends.
MaxMessages == 2

Reverse(seq) == [i \in 1..Len(seq) |-> seq[Len(seq) + 1 - i]]

\* The sequences of distinct elements of S.
Orders(S) ==
    UNION { { f \in [1..n -> S] :
                \A i, j \in 1..n : i # j => f[i] # f[j] } :
            n \in 0..Cardinality(S) }

\* The orders of all elements of S: dict.keys() of a dict with these keys.
keys(S) == { f \in Orders(S) : Len(f) = Cardinality(S) }

\* A worker's config: whether it has a worker_name, its middlewares in their
\* configured order, how many connectors its setup_connectors sets up, one
\* after the other, and its class's UNPAUSE_CONNECTORS.
Configs ==
    [worker_name : BOOLEAN,
     middlewares : Orders(1..MaxMiddlewares),
     connectors  : 0..MaxConnectors,
     unpause     : BOOLEAN]

\* A connector as connector_cls(...) builds it: its consumers are paused and
\* it is ready once its setup() has succeeded. id 0 is no connector.
Connector(id) == [id |-> id, paused |-> TRUE, ready |-> FALSE]

\* A call of a worker's method; arg is 0 where the method takes none.
Stage(func, arg) == [func |-> func, arg |-> arg]
NoStage == Stage("None", 0)

\* BaseWorker.__init__
BaseWorker(config) ==
    [config      |-> config,
     connectors  |-> {},          \* the names in self.connectors
     connector_objects |->        \* the connector self.connectors has by name
         [name \in 1..MaxConnectors |-> Connector(0)],
     created     |-> 0,           \* the connectors connector_cls has built
     setups      |-> 0,           \* the calls of setup_connector after start
     ALLOWED_ENDPOINTS |->        \* frozenset(['default']); any is None
         [any |-> FALSE, names |-> {"default"}],
     messages    |-> 0,           \* the messages consumed or sent so far
     consumed    |-> <<>>,        \* history: the messages a connector has
                                  \* delivered
     handled     |-> <<>>,        \* history: the handlers called, with the
                                  \* message each was given
     published   |-> <<>>,        \* history: the messages published, with
                                  \* the endpoint of each
     errors      |-> 0,           \* the ValueErrors send_to has raised
     send_to_calls |-> <<>>,      \* history: the calls of send_to
     middlewares |-> <<>>,
     hb_pub      |-> "None",      \* _hb_pub: "None" or "publisher"
     stack       |-> <<>>,        \* the Deferreds that are running callbacks,
                                  \* the innermost last
     running     |-> NoStage,     \* the call whose Deferred has not fired
     results     |-> [startWorker |-> "none", stopWorker |-> "none"],
     trace       |-> <<>>]        \* history: the calls and how they ended

\* ---------------------------------------------------------- SandboxRlimiter

\* The names of the variables of an environment: the two the limiter keeps
\* for itself, PYTHONPATH and one of the sandbox's own.
SANDBOXED_PYTHONPATH == "_SANDBOXED_PYTHONPATH_"
SANDBOX_RLIMITS == "_SANDBOX_RLIMITS_"
EnvNames == {"PYTHONPATH", SANDBOXED_PYTHONPATH, SANDBOX_RLIMITS, "TEST_VAR"}

\* A dict of environment variables: Unset for a name that is not a key.
Unset == "(unset)"
EnvValues == {"/pp1", "x"}
Envs == [EnvNames -> EnvValues \cup {Unset}]
NoEnv == [name \in EnvNames |-> Unset]

\* os.pathsep.join(python_path): where vumi is found, then the PYTHONPATH
\* of the worker's own environment.
PythonPaths == {"/vumi:", "/vumi:/pp1"}
\* json.dumps(rlimits)
RlimitsJson == {"{}", "{9: [1, 1]}"}

\* SandboxRlimiter._override_child_env
override_child_env(env, python_path, rlimits) ==
    LET saved == IF env["PYTHONPATH"] # Unset
                 THEN [env EXCEPT ![SANDBOXED_PYTHONPATH] = env["PYTHONPATH"]]
                 ELSE env
    IN  [saved EXCEPT !["PYTHONPATH"] = python_path,
                      ![SANDBOX_RLIMITS] = rlimits]

\* The mutant of _restore_child_env: the saved PYTHONPATH stays where it was
\* saved.
restore_child_env_unrestored(env) ==
    [env EXCEPT ![SANDBOX_RLIMITS] = Unset, !["PYTHONPATH"] = Unset]

\* SandboxRlimiter._restore_child_env; del env[_SANDBOX_RLIMITS_] raises
\* KeyError for an environment without it.
restore_child_env(env) ==
    LET e1 == [env EXCEPT ![SANDBOX_RLIMITS] = Unset]
        e2 == IF e1["PYTHONPATH"] # Unset
              THEN [e1 EXCEPT !["PYTHONPATH"] = Unset] ELSE e1
    IN  IF e2[SANDBOXED_PYTHONPATH] # Unset
        THEN [e2 EXCEPT !["PYTHONPATH"] = e2[SANDBOXED_PYTHONPATH],
                        ![SANDBOXED_PYTHONPATH] = Unset]
        ELSE e2

\* The environment env before SandboxRlimiter.spawn has touched it.
ChildEnv(env) == [given |-> env, env |-> env, step |-> "given"]

\* ------------------------------------------------------------------- state

VARIABLES
    transport,          \* "None" before spawn; "pid" from spawn until the
                        \* process has ended; "exited" once it has ended on
                        \* its own and is not reaped (its pid is still set);
                        \* "nopid" once it is reaped
    signalled,          \* signalProcess('KILL') has been called
    killed,             \* the KILL signal has ended the process
    kill_calls,         \* invocations of SandboxProtocol.kill
    timeout_task,       \* "active", "called" or "cancelled"
    started,            \* MultiDeferred _started: [result, deferreds]
    done,               \* MultiDeferred _done: [result, deferreds]
    deferreds,          \* every Deferred handed out by get(), by creation
    pending_requests,   \* _pending_requests: one entry per dispatched command
    requests_done,      \* the DeferredList of processEnded: [waiting, result]
    recv_bytes,
    chunk,
    error_chunk,
    out_stream,         \* everything the child writes to stdout in this run
    out_pos,            \* how much of it has been delivered to outReceived
    err_stream,         \* everything the child writes to stderr in this run
    err_pos,            \* how much of it has been delivered to errReceived
    out_open,           \* the stdout pipe is open
    err_open,           \* the stderr pipe is open
    written,            \* the commands written to the child's stdin, in order
    init_calls,         \* resources whose sandbox_init hook was invoked
    log_errors,         \* log.error calls, by what was logged
    log_info,           \* log.info calls
    status,             \* what process_message_in_sandbox returned
    reason,             \* the reason processEnded was called with
    redis,              \* the store: what it holds under each key
    handler_calls,      \* the handlers of RedisResource called, by slot
    reply_queue,        \* the slots waiting for the store, oldest call first
    calls_started,      \* how many handlers have been called
    last_set,           \* history: by session and key, the value of the
                        \* last set that was answered with success
    api,                \* SandboxApi._sandbox, with the calls of set_sandbox
                        \* and how many of them raised SandboxError
    worker,             \* the worker that owns the sandboxes: a BaseWorker
    other,              \* the SandboxProtocol of another session that the
                        \* worker runs at the same time, as a record of the
                        \* variables above; NoSession when there is none
    child_env           \* the environment of the child: the env of
                        \* spawn_kwargs as it was (given), as it is (env) and
                        \* which of the limiter's methods have run on it

vars ==
    <<transport, signalled, killed, kill_calls, timeout_task, started, done, deferreds,
      pending_requests, requests_done, recv_bytes, chunk, error_chunk,
      out_stream, out_pos, err_stream, err_pos, out_open, err_open,
      written, init_calls,
      log_errors, log_info, status, reason,
      redis, handler_calls, reply_queue, calls_started, last_set, api,
      worker, other, child_env>>

\* The state as one record, so that a handler's calls compose in order.
State ==
    [transport |-> transport, signalled |-> signalled, killed |-> killed,
     kill_calls |-> kill_calls, timeout_task |-> timeout_task,
     started |-> started, done |-> done, deferreds |-> deferreds,
     pending_requests |-> pending_requests, requests_done |-> requests_done,
     recv_bytes |-> recv_bytes, chunk |-> chunk, error_chunk |-> error_chunk,
     out_stream |-> out_stream, out_pos |-> out_pos,
     err_stream |-> err_stream, err_pos |-> err_pos,
     out_open |-> out_open, err_open |-> err_open, written |-> written,
     init_calls |-> init_calls,
     log_errors |-> log_errors, log_info |-> log_info, status |-> status,
     reason |-> reason, redis |-> redis, handler_calls |-> handler_calls,
     reply_queue |-> reply_queue, calls_started |-> calls_started,
     last_set |-> last_set, api |-> api, worker |-> worker, other |-> other,
     child_env |-> child_env]

\* The next state is s; s is evaluated once.
Becomes(next) ==
    \E s \in {next} :
        /\ transport' = s.transport
        /\ signalled' = s.signalled
        /\ killed' = s.killed
        /\ kill_calls' = s.kill_calls
        /\ timeout_task' = s.timeout_task
        /\ started' = s.started
        /\ done' = s.done
        /\ deferreds' = s.deferreds
        /\ pending_requests' = s.pending_requests
        /\ requests_done' = s.requests_done
        /\ recv_bytes' = s.recv_bytes
        /\ chunk' = s.chunk
        /\ error_chunk' = s.error_chunk
        /\ out_stream' = s.out_stream
        /\ out_pos' = s.out_pos
        /\ err_stream' = s.err_stream
        /\ err_pos' = s.err_pos
        /\ out_open' = s.out_open
        /\ err_open' = s.err_open
        /\ written' = s.written
        /\ init_calls' = s.init_calls
        /\ log_errors' = s.log_errors
        /\ log_info' = s.log_info
        /\ status' = s.status
        /\ reason' = s.reason
        /\ redis' = s.redis
        /\ handler_calls' = s.handler_calls
        /\ reply_queue' = s.reply_queue
        /\ calls_started' = s.calls_started
        /\ last_set' = s.last_set
        /\ api' = s.api
        /\ worker' = s.worker
        /\ other' = s.other
    /\ child_env' = s.child_env

Is(s) ==
    /\ transport = s.transport
    /\ signalled = s.signalled
    /\ killed = s.killed
    /\ kill_calls = s.kill_calls
    /\ timeout_task = s.timeout_task
    /\ started = s.started
    /\ done = s.done
    /\ deferreds = s.deferreds
    /\ pending_requests = s.pending_requests
    /\ requests_done = s.requests_done
    /\ recv_bytes = s.recv_bytes
    /\ chunk = s.chunk
    /\ error_chunk = s.error_chunk
    /\ out_stream = s.out_stream
    /\ out_pos = s.out_pos
    /\ err_stream = s.err_stream
    /\ err_pos = s.err_pos
    /\ out_open = s.out_open
    /\ err_open = s.err_open
    /\ written = s.written
    /\ init_calls = s.init_calls
    /\ log_errors = s.log_errors
    /\ log_info = s.log_info
    /\ status = s.status
    /\ reason = s.reason
    /\ redis = s.redis
    /\ handler_calls = s.handler_calls
    /\ reply_queue = s.reply_queue
    /\ calls_started = s.calls_started
    /\ last_set = s.last_set
    /\ api = s.api
    /\ worker = s.worker
    /\ other = s.other
    /\ child_env = s.child_env

\* What log.error is called with.
LogKinds ==
    {"stderr", "unknown_command", "request_failed", "start_failed",
     "process_terminated"}

\* log.error(...)
log_error(s, kind) == [s EXCEPT !.log_errors[kind] = @ + 1]

\* ----------------------------------------------------------- SandboxProtocol

\* The mutant of kill: the call sends no signal.
kill_without_signal(s) == [s EXCEPT !.kill_calls = @ + 1]

\* SandboxProtocol.kill
kill(s) ==
    LET s1 == [s EXCEPT !.kill_calls = @ + 1] IN
    IF s.transport = "pid"
    THEN [s1 EXCEPT !.signalled = TRUE, !.killed = TRUE]
    ELSE IF s.transport = "exited" THEN [s1 EXCEPT !.signalled = TRUE]
    ELSE s1

\* The mutant of sandbox_kill: the api kills the protocol of the other
\* session.
sandbox_kill_other(s) == [s EXCEPT !.other = kill(@)]

\* SandboxApi.sandbox_kill: self._sandbox.kill(), for the protocol
\* set_sandbox has bound the api to.
sandbox_kill(s) ==
    IF s.api.sandbox = "protocol" THEN kill(s)
    ELSE [s EXCEPT !.other = kill(@)]

\* SandboxProtocol.send: the command's line form is written to stdin.
send(s, command) == [s EXCEPT !.written = Append(@, command)]

\* ------------------------------------------------------------ MultiDeferred

\* MultiDeferred.fired
fired(md) == md.result # NOT_FIRED

\* The mutant of get_fires_now: get() never fires the new Deferred itself.
get_appends_always(md) == FALSE

\* MultiDeferred.get: whether the new Deferred is fired at once (it is
\* appended to _deferreds otherwise).
get_fires_now(md) == fired(md)

\* A new Deferred(), not yet fired, got from get() of the signal sig; late
\* records whether the signal had fired by then.
Deferred(sig, owner, late) ==
    [sig |-> sig, owner |-> owner, late |-> late, fires |-> 0,
     value |-> NOT_FIRED]

\* d.callback(result) on a Deferred of done(): the run's own has the errback
\* log.error attached (on_start) and its result is what the run returns.
done_deferred_callback(s, d, result) ==
    LET s1 == [s EXCEPT !.deferreds[d].fires = @ + 1,
                        !.deferreds[d].value = result] IN
    IF s.deferreds[d].owner # "run" THEN s1
    ELSE IF IsFailure(result)
         THEN [log_error(s1, "process_terminated") EXCEPT !.status = None]
         ELSE [s1 EXCEPT !.status = result]

\* SandboxProtocol.done: self._done.get()
done_get(s, owner) ==
    LET d == Len(s.deferreds) + 1
        s1 == [s EXCEPT !.deferreds = Append(@, Deferred("done", owner, fired(s.done)))] IN
    IF get_fires_now(s.done) THEN done_deferred_callback(s1, d, s.done.result)
    ELSE [s1 EXCEPT !.done.deferreds = Append(@, d)]

RECURSIVE done_fire_all(_, _, _)
\* The loop of MultiDeferred.callback over _deferreds.
done_fire_all(s, ds, result) ==
    IF ds = <<>> THEN s
    ELSE done_fire_all(done_deferred_callback(s, Head(ds), result),
                       Tail(ds), result)

\* self._done.callback(result)
done_callback(s, result) ==
    LET s1 == [s EXCEPT !.done.result = result] IN
    [done_fire_all(s1, s.done.deferreds, result) EXCEPT !.done.deferreds = <<>>]

\* ------------------------------------------------------------- SandboxApi

\* JsSandboxResource.sandbox_init sends the initialize command; the
\* sandbox_init of every other resource class does nothing.
resource_sandbox_init(s, name) ==
    LET s1 == [s EXCEPT !.init_calls = @ \cup {name}] IN
    IF resources[name] = "JsSandboxResource"
    THEN send(s1, SandboxCommand(<<"initialize">>, GeneratedId, FALSE))
    ELSE s1

RECURSIVE sandbox_init_all(_, _)
sandbox_init_all(s, names) ==
    IF names = {} THEN s
    ELSE LET name == CHOOSE x \in names : TRUE IN
         sandbox_init_all(resource_sandbox_init(s, name), names \ {name})

\* SandboxApi.sandbox_init
sandbox_init(s) == sandbox_init_all(s, DOMAIN resources)

\* SandboxApi.sandbox_inbound_message / sandbox_inbound_event
sandbox_inbound_message(s) ==
    send(s, SandboxCommand(<<"inbound-message">>, GeneratedId, FALSE))

\* ----------------------------------------------------- _process_in_sandbox

\* The mutant of on_start: the message is pushed before the hooks run.
on_start_message_first(s) ==
    done_get(sandbox_init(sandbox_inbound_message(s)), "run")

\* on_start of Sandbox._process_in_sandbox
on_start(s) == done_get(sandbox_inbound_message(sandbox_init(s)), "run")

\* The mutant of started_deferred_callback: the errback runs on_start too.
started_deferred_callback_always(s, d, result) ==
    LET s1 == [s EXCEPT !.deferreds[d].fires = @ + 1,
                        !.deferreds[d].value = result] IN
    IF s.deferreds[d].owner # "run" THEN s1 ELSE on_start(s1)

\* d.callback(result) on a Deferred of started(): the run's own has
\* addCallbacks(on_start, log.error) attached.
started_deferred_callback(s, d, result) ==
    LET s1 == [s EXCEPT !.deferreds[d].fires = @ + 1,
                        !.deferreds[d].value = result] IN
    IF s.deferreds[d].owner # "run" THEN s1
    ELSE IF IsFailure(result)
         THEN [log_error(s1, "start_failed") EXCEPT !.status = None]
         ELSE on_start(s1)

\* SandboxProtocol.started: self._started.get()
started_get(s, owner) ==
    LET d == Len(s.deferreds) + 1
        s1 == [s EXCEPT !.deferreds =
                   Append(@, Deferred("started", owner, fired(s.started)))] IN
    IF get_fires_now(s.started)
    THEN started_deferred_callback(s1, d, s.started.result)
    ELSE [s1 EXCEPT !.started.deferreds = Append(@, d)]

RECURSIVE started_fire_all(_, _, _)
\* The loop of MultiDeferred.callback over _deferreds.
started_fire_all(s, ds, result) ==
    IF ds = <<>> THEN s
    ELSE started_fire_all(started_deferred_callback(s, Head(ds), result),
                          Tail(ds), result)

\* self._started.callback(result)
started_callback(s, result) ==
    LET s1 == [s EXCEPT !.started.result = result] IN
    [started_fire_all(s1, s.started.deferreds, result)
        EXCEPT !.started.deferreds = <<>>]

\* --------------------------------------------------------- dispatch_request

\* The mutant of reply_cmd: the reply keeps the name the handler saw.
reply_cmd_rest(resource_name, sep, rest) == rest

\* The cmd of a reply: '%s%s%s' % (resource_name, sep, rest)
reply_cmd(resource_name, sep, rest) == resource_name \o sep \o rest

\* The first lines of SandboxApi.dispatch_request: the resource name, the
\* separator found and the name the handler sees.
route(cmd) ==
    LET p == partition(cmd) IN
    IF p.sep = <<>>
    THEN [resource_name |-> <<>>, sep |-> <<>>, rest |-> p.head]
    ELSE [resource_name |-> p.head, sep |-> p.sep, rest |-> p.tail]

\* self.resources.resources.get(resource_name, self.fallback_resource)
resource_for(resource_name) ==
    IF resource_name \in DOMAIN resources
    THEN [name |-> resource_name, cls |-> resources[resource_name]]
    ELSE [name |-> <<"fallback">>, cls |-> fallback_resource]

\* getattr(self, 'handle_%s' % cmd, self.unknown_request) finds a handler.
has_handler(cls, rest) == rest \in handlers[cls]

\* SandboxResource.reply
reply(command, success) ==
    [SandboxCommand(command.cmd, command.cmd_id, TRUE)
        EXCEPT !.success = success]

\* The tail of SandboxApi.dispatch_request, once the handler has returned
\* reply_ (None when has_reply is false).
send_reply(s, r, has_reply, reply_) ==
    IF has_reply
    THEN send(s, [reply_ EXCEPT
                    !.cmd = reply_cmd(r.resource_name, r.sep, r.rest)])
    ELSE s

\* The mutant of unknown_request: the error is logged and the sandbox lives.
unknown_request_no_kill(s) == log_error(s, "unknown_command")

\* SandboxResource.unknown_request
unknown_request(s) == sandbox_kill(log_error(s, "unknown_command"))

\* One entry of _pending_requests: the Deferred dispatch_request returned
\* (state), with the command it was called with and where it was routed.
Request(command, r, res, handler, state) ==
    [cmd |-> command.cmd, cmd_id |-> command.cmd_id, line |-> command.line,
     resource_name |-> r.resource_name, sep |-> r.sep, rest |-> r.rest,
     resource |-> res.name, handler |-> handler, state |-> state]

\* The mutant of dispatch_request: the handler of a command is called when
\* the handlers of the commands before it have settled.
dispatch_request_in_turn(s, command) ==
    LET r == route(command.cmd)
        res == resource_for(r.resource_name)
        handled == [command EXCEPT !.cmd = r.rest]
        add(s1, handler, state) ==
            [s1 EXCEPT !.pending_requests =
                Append(@, Request(command, r, res, handler, state))]
    IN  IF ~has_handler(res.cls, r.rest)
        THEN add(send_reply(unknown_request(s), r, FALSE, handled),
                 <<"unknown_request">>, "succeeded")
        ELSE IF /\ res.cls = "LoggingResource"
                /\ \A i \in DOMAIN s.pending_requests :
                       s.pending_requests[i].state # "pending"
        THEN add(send_reply([s EXCEPT !.log_info = @ + 1], r, TRUE,
                            reply(handled, TRUE)),
                 r.rest, "succeeded")
        ELSE add(s, r.rest, "pending")

\* The mutant of dispatch_request: once kill was called no handler is
\* called, and the request is left pending.
dispatch_request_unless_killed(s, command) ==
    LET r == route(command.cmd)
        res == resource_for(r.resource_name)
        handled == [command EXCEPT !.cmd = r.rest]
        add(s1, handler, state) ==
            [s1 EXCEPT !.pending_requests =
                Append(@, Request(command, r, res, handler, state))]
    IN  IF s.kill_calls > 0 THEN add(s, r.rest, "pending")
        ELSE IF ~has_handler(res.cls, r.rest)
        THEN add(send_reply(unknown_request(s), r, FALSE, handled),
                 <<"unknown_request">>, "succeeded")
        ELSE IF res.cls = "LoggingResource"
        THEN add(send_reply([s EXCEPT !.log_info = @ + 1], r, TRUE,
                            reply(handled, TRUE)),
                 r.rest, "succeeded")
        ELSE add(s, r.rest, "pending")

\* SandboxApi.dispatch_request(command), up to the first wait of the handler,
\* and the append of its Deferred to _pending_requests.
dispatch_request(s, command) ==
    LET r == route(command.cmd)
        res == resource_for(r.resource_name)
        handled == [command EXCEPT !.cmd = r.rest]
        add(s1, handler, state) ==
            [s1 EXCEPT !.pending_requests =
                Append(@, Request(command, r, res, handler, state))]
    IN  IF ~has_handler(res.cls, r.rest)
        THEN add(send_reply(unknown_request(s), r, FALSE, handled),
                 <<"unknown_request">>, "succeeded")
        ELSE IF res.cls = "LoggingResource"
        THEN \* LoggingResource.handle_info
             add(send_reply([s EXCEPT !.log_info = @ + 1], r, TRUE,
                            reply(handled, TRUE)),
                 r.rest, "succeeded")
        ELSE IF res.cls = "RedisResource"
        THEN \* RedisResource.handle_get waits for the store
             add(s, r.rest, "pending")
        ELSE add(s, r.rest, "succeeded")

\* _process_request_results: every failed request is logged.
process_request_results(s) ==
    LET failed == {i \in DOMAIN s.pending_requests :
                       s.pending_requests[i].state = "failed"} IN
    [s EXCEPT !.log_errors["request_failed"] = @ + Cardinality(failed)]

\* The mutant of requests_settled: the DeferredList fires with the first
\* request that settles instead of the last.
requests_settled_any(s) ==
    \/ s.pending_requests = <<>>
    \/ \E i \in DOMAIN s.pending_requests :
           s.pending_requests[i].state # "pending"

\* DeferredList(self._pending_requests) has every result.
requests_settled(s) ==
    \A i \in DOMAIN s.pending_requests : s.pending_requests[i].state # "pending"

\* The mutant of requests_done_fire: done is fired when the process has
\* ended, whatever the requests are waiting for.
requests_done_fire_at_end(s) ==
    IF s.requests_done.state = "waiting"
    THEN done_callback(
             [process_request_results(s) EXCEPT !.requests_done.state = "fired"],
             s.requests_done.result)
    ELSE s

\* The callbacks processEnded adds to requests_done, run once it fires.
requests_done_fire(s) ==
    IF s.requests_done.state = "waiting" /\ requests_settled(s)
    THEN done_callback(
             [process_request_results(s) EXCEPT !.requests_done.state = "fired"],
             s.requests_done.result)
    ELSE s

\* ------------------------------------------------ SandboxProtocol handlers

\* The mutant of check_recv: the quota is compared with the bytes received
\* before this batch.
check_recv_before(s, nbytes) ==
    LET s1 == [s EXCEPT !.recv_bytes = @ + nbytes] IN
    IF s.recv_bytes <= RecvLimit THEN [ok |-> TRUE, s |-> s1]
    ELSE [ok |-> FALSE, s |-> kill(s1)]

\* The mutant of check_recv: the quota is reached with the last byte it
\* allows.
check_recv_at_limit(s, nbytes) ==
    LET s1 == [s EXCEPT !.recv_bytes = @ + nbytes] IN
    IF s1.recv_bytes < RecvLimit THEN [ok |-> TRUE, s |-> s1]
    ELSE [ok |-> FALSE, s |-> kill(s1)]

\* SandboxProtocol.check_recv
check_recv(s, nbytes) ==
    LET s1 == [s EXCEPT !.recv_bytes = @ + nbytes] IN
    IF s1.recv_bytes <= RecvLimit THEN [ok |-> TRUE, s |-> s1]
    ELSE [ok |-> FALSE, s |-> kill(s1)]

\* The mutant of _process_data: a batch above the quota empties the buffer.
process_data_clearing(s, chunk_, data) ==
    LET c == check_recv(s, Len(data)) IN
    IF ~c.ok THEN [s |-> c.s, lines |-> << <<>> >>]
    ELSE LET line_parts == split(data) IN
         [s |-> c.s,
          lines |-> <<chunk_ \o line_parts[1]>> \o Tail(line_parts)]

\* The mutant of _process_data: what was left of the batch before is not
\* put before the first line of this one.
process_data_without_chunk(s, chunk_, data) ==
    LET c == check_recv(s, Len(data)) IN
    IF ~c.ok THEN [s |-> c.s, lines |-> <<chunk_>>]
    ELSE [s |-> c.s, lines |-> split(data)]

\* SandboxProtocol._process_data
process_data(s, chunk_, data) ==
    LET c == check_recv(s, Len(data)) IN
    IF ~c.ok THEN [s |-> c.s, lines |-> <<chunk_>>]
    ELSE LET line_parts == split(data) IN
         [s |-> c.s,
          lines |-> <<chunk_ \o line_parts[1]>> \o Tail(line_parts)]

RECURSIVE dispatch_lines(_, _)
\* The loop of outReceived: each line is parsed and dispatched in turn; an
\* exception raised by the parse would leave the loop.
dispatch_lines(s, lines) ==
    IF lines = <<>> THEN [s |-> s, raised |-> FALSE]
    ELSE LET p == parse_command(Head(lines)) IN
         IF p.raised THEN [s |-> s, raised |-> TRUE]
         ELSE dispatch_lines(dispatch_request(s, p.command), Tail(lines))

\* SandboxProtocol.outReceived
outReceived(s, data) ==
    LET pd == process_data(s, s.chunk, data)
        n == Len(pd.lines)
        r == dispatch_lines(pd.s, SubSeq(pd.lines, 1, n - 1)) IN
    IF r.raised THEN r.s ELSE [r.s EXCEPT !.chunk = pd.lines[n]]

\* The mutant of outConnectionLost: what is left in the buffer is dropped.
outConnectionLost_dropping(s) == [s EXCEPT !.chunk = <<>>]

\* SandboxProtocol.outConnectionLost
outConnectionLost(s) ==
    IF s.chunk # <<>>
    THEN LET r == dispatch_lines([s EXCEPT !.chunk = <<>>], <<s.chunk>>) IN r.s
    ELSE s

\* SandboxProtocol.errReceived
errReceived(s, data) ==
    LET pd == process_data(s, s.error_chunk, data)
        n == Len(pd.lines) IN
    [pd.s EXCEPT !.log_errors["stderr"] = @ + (n - 1),
                 !.error_chunk = pd.lines[n]]

\* SandboxProtocol.errConnectionLost
errConnectionLost(s) ==
    IF s.error_chunk # <<>>
    THEN [log_error(s, "stderr") EXCEPT !.error_chunk = <<>>]
    ELSE s

\* SandboxProtocol.connectionMade
connectionMade(s) == started_callback(s, Protocol)

\* The mutant of exit_result: the exit code of every process that exited on
\* its own is the result.
exit_result_any_code(reason_) ==
    IF ~reason_.signal THEN Status(reason_.status) ELSE Failure(reason_)

\* processEnded: the result done is fired with.
exit_result(reason_) ==
    IF reason_.cls = "ProcessDone" THEN Status(reason_.status)
    ELSE Failure(reason_)

\* The mutant of processEnded: started is left as it is.
processEnded_not_starting(s, reason_) ==
    LET s1 == IF s.timeout_task = "active"
              THEN [s EXCEPT !.timeout_task = "cancelled"] ELSE s
    IN  requests_done_fire(
            [s1 EXCEPT !.reason = reason_,
                       !.requests_done =
                           [state |-> "waiting",
                            result |-> exit_result(reason_)]])

\* The mutant of processEnded: the timer is left as it is.
processEnded_keeping_timer(s, reason_) ==
    LET s2 == IF ~fired(s.started) THEN started_callback(s, StartFailure)
              ELSE s
    IN  requests_done_fire(
            [s2 EXCEPT !.reason = reason_,
                       !.requests_done =
                           [state |-> "waiting",
                            result |-> exit_result(reason_)]])

\* SandboxProtocol.processEnded
processEnded(s, reason_) ==
    LET s1 == IF s.timeout_task = "active"
              THEN [s EXCEPT !.timeout_task = "cancelled"] ELSE s
        s2 == IF ~fired(s1.started) THEN started_callback(s1, StartFailure)
              ELSE s1
    IN  requests_done_fire(
            [s2 EXCEPT !.reason = reason_,
                       !.requests_done =
                           [state |-> "waiting",
                            result |-> exit_result(reason_)]])

\* ------------------------------------------------------- the child's output

\* The lines a child of the model writes: log.info to resource a (answered at
\* once), get to resource b (answered when the store has) and a line that is
\* no command.
Lines == { <<"1", "a", SEP, "i">>, <<"2", "b", SEP, "g">>, <<Garbage>> }

RECURSIVE StreamsOf(_)
\* The streams of exactly n newline-terminated lines.
StreamsOf(n) ==
    IF n = 0 THEN { <<>> }
    ELSE { l \o <<NL>> \o rest : l \in Lines, rest \in StreamsOf(n - 1) }

\* What a child writes to stdout if it is left to: MaxLines lines. A pipe
\* may close at any byte, so every prefix of these is a child's output too.
OutStreams == StreamsOf(MaxLines)

\* What a child writes to stderr if it is left to.
ErrStreams == { <<"e", NL>> }

\* ---------------------------------------------------------------- the run

\* No other session: a protocol that was never spawned.
NoSession ==
    [transport |-> "None", signalled |-> FALSE, killed |-> FALSE,
     kill_calls |-> 0]

\* The mutant of set_sandbox: the api is bound to the sandbox of the last
\* call.
set_sandbox_rebinding(s, sandbox) ==
    [s EXCEPT !.api.calls = @ + 1, !.api.sandbox = sandbox]

\* SandboxApi.set_sandbox
set_sandbox(s, sandbox) ==
    IF s.api.sandbox # "None"
    THEN [s EXCEPT !.api.calls = @ + 1, !.api.raised = @ + 1]
    ELSE [s EXCEPT !.api.calls = @ + 1, !.api.sandbox = sandbox]

\* The SandboxProtocols built with the api: the one of the run, and another.
Sandboxes == {"protocol", "other"}

\* SandboxProtocol.__init__, as sandbox_protocol_for_message has built it
\* with a new SandboxApi, for a child that will write out to stdout and err
\* to stderr.
New(out, err) ==
  set_sandbox(
    [transport |-> "None", signalled |-> FALSE, killed |-> FALSE,
     kill_calls |-> 0,
     timeout_task |-> "active",
     started |-> [result |-> NOT_FIRED, deferreds |-> <<>>],
     done |-> [result |-> NOT_FIRED, deferreds |-> <<>>],
     deferreds |-> <<>>, pending_requests |-> <<>>,
     requests_done |-> [state |-> "none", result |-> None],
     recv_bytes |-> 0, chunk |-> <<>>, error_chunk |-> <<>>,
     out_stream |-> out, out_pos |-> 0, err_stream |-> err, err_pos |-> 0,
     out_open |-> TRUE, err_open |-> TRUE, written |-> <<>>,
     init_calls |-> {}, log_errors |-> [k \in LogKinds |-> 0],
     log_info |-> 0, status |-> Pending, reason |-> NoReason,
     redis |-> [k \in StoreKeys |-> Nil],
     handler_calls |-> [slot \in 1..MaxInFlight |-> Idle],
     reply_queue |-> <<>>, calls_started |-> 0,
     last_set |-> [id \in SandboxIds |-> [k \in Keys |-> PyNone]],
     api |-> [sandbox |-> "None", calls |-> 0, raised |-> 0],
     worker |-> BaseWorker([worker_name |-> TRUE, middlewares |-> <<>>,
                            connectors |-> 1, unpause |-> TRUE]),
     other |-> NoSession,
     child_env |-> ChildEnv(NoEnv)],
    "protocol")

InitWith(outs, errs) == \E out \in outs, err \in errs : Is(New(out, err))

\* Sandbox._process_in_sandbox, from spawn() to started() with its callbacks;
\* spawnProcess calls connectionMade before it returns when sync.
process_in_sandbox(s, sync) ==
    LET s1 == [s EXCEPT !.transport = "pid"]
        s2 == IF sync THEN connectionMade(s1) ELSE s1 IN
    started_get(s2, "run")

\* Sandbox._process_in_sandbox: spawn(), then started() with its callbacks.
\* spawnProcess may call connectionMade before it returns.
ProcessInSandbox ==
    /\ transport = "None"
    /\ \E sync \in BOOLEAN : Becomes(process_in_sandbox(State, sync))

\* The reactor calls connectionMade once the process runs.
ConnectionMade ==
    /\ transport = "pid"
    /\ ~fired(started)
    /\ Becomes(connectionMade(State))

\* An observer other than the run calls started() or done().
ObserverGet ==
    /\ Cardinality({d \in DOMAIN deferreds :
                        deferreds[d].owner = "observer"}) < MaxObservers
    /\ \/ Becomes(started_get(State, "observer"))
       \/ Becomes(done_get(State, "observer"))

\* The reactor delivers the next bytes of the child's stdout.
OutReceived ==
    /\ started.result = Protocol
    /\ out_open
    /\ \E k \in 1..(Len(out_stream) - out_pos) :
           Becomes(outReceived([State EXCEPT !.out_pos = @ + k],
                               SubSeq(out_stream, out_pos + 1, out_pos + k)))

\* The reactor delivers the next bytes of the child's stderr.
ErrReceived ==
    /\ started.result = Protocol
    /\ err_open
    /\ \E k \in 1..(Len(err_stream) - err_pos) :
           Becomes(errReceived([State EXCEPT !.err_pos = @ + k],
                               SubSeq(err_stream, err_pos + 1, err_pos + k)))

\* The stdout pipe closes.
OutConnectionLost ==
    /\ transport # "None"
    /\ out_open
    /\ Becomes(outConnectionLost([State EXCEPT !.out_open = FALSE]))

\* The stderr pipe closes.
ErrConnectionLost ==
    /\ transport # "None"
    /\ err_open
    /\ Becomes(errConnectionLost([State EXCEPT !.err_open = FALSE]))

\* The store answers a pending get: with a value, or with an error that the
\* handler lets through.
HandlerSettles ==
    \E i \in DOMAIN pending_requests :
        /\ pending_requests[i].state = "pending"
        /\ LET q == pending_requests[i]
               handled == [SandboxCommand(q.rest, q.cmd_id, FALSE)
                               EXCEPT !.line = q.line] IN
           \/ Becomes(requests_done_fire(
                  send_reply([State EXCEPT
                                 !.pending_requests[i].state = "succeeded"],
                             q, TRUE, reply(handled, TRUE))))
           \/ Becomes(requests_done_fire(
                  [State EXCEPT !.pending_requests[i].state = "failed"]))

\* reactor.callLater(timeout, self.kill) comes due.
TimeoutFires ==
    /\ timeout_task = "active"
    /\ transport # "None"
    /\ Becomes(kill([State EXCEPT !.timeout_task = "called"]))

\* The process ends on its own: it exits, or a signal that is not kill()'s
\* (a resource limit's) ends it.
ProcessExits ==
    /\ transport = "pid"
    /\ ~killed
    /\ Becomes([State EXCEPT !.transport = "exited"])

\* The reactor reaps the process that has ended: transport.pid becomes None.
ProcessReaped ==
    /\ \/ transport = "exited"
       \/ transport = "pid" /\ killed
    /\ Becomes([State EXCEPT !.transport = "nopid"])

\* The reasons a process that ended as this one did is reported with.
EndReasons == IF killed THEN {ProcessTerminated(0, TRUE)} ELSE Reasons

\* The reactor calls processEnded once the process is reaped and its pipes
\* are closed.
ProcessEnded ==
    /\ transport = "nopid"
    /\ ~out_open
    /\ ~err_open
    /\ requests_done.state = "none"
    /\ \E r \in EndReasons : Becomes(processEnded(State, r))

Init == InitWith(OutStreams, ErrStreams)

Next ==
    \/ ProcessInSandbox
    \/ ConnectionMade
    \/ OutReceived
    \/ ErrReceived
    \/ OutConnectionLost
    \/ ErrConnectionLost
    \/ HandlerSettles
    \/ TimeoutFires
    \/ ProcessExits
    \/ ProcessReaped
    \/ ProcessEnded

Spec == Init /\ [][Next]_vars

\* The run to its end, for a child that writes nothing to stdout or one get:
\* a process that has ended is reaped, the pipes of the process close,
\* processEnded is called once both have happened, and every handler that
\* waits for the store is answered.
InitTimeout == InitWith({ <<>>, <<"2", "b", SEP, "g", NL>> }, ErrStreams)

\* Each of these steps is taken a bounded number of times in a run, so that
\* weak fairness of their disjunction makes each of them happen.
RunsOn ==
    \/ ProcessReaped
    \/ OutConnectionLost
    \/ ErrConnectionLost
    \/ ProcessEnded
    \/ HandlerSettles

FairTimeout == WF_vars(RunsOn)

SpecTimeout == InitTimeout /\ [][Next]_vars /\ FairTimeout

\* create_sandbox_protocol is called again with the api of the run, or
\* set_sandbox with the run's protocol.
SetSandboxAgain ==
    /\ api.calls <= MaxRebinds
    /\ \E sandbox \in Sandboxes : Becomes(set_sandbox(State, sandbox))

\* The run whose api other SandboxProtocols are built with.
NextApi == Next \/ SetSandboxAgain

SpecApi == InitTimeout /\ [][NextApi]_vars

\* What a session may do next on its own, as the actions of Next have it
\* for the session of the variables: spawn, connectionMade, outReceived,
\* the pipes closing, the process ending, being reaped and processEnded.
SessionSteps(b) ==
    (IF b.transport = "None"
     THEN { process_in_sandbox(b, sync) : sync \in BOOLEAN } ELSE {})
    \cup (IF b.transport = "pid" /\ ~fired(b.started)
          THEN { connectionMade(b) } ELSE {})
    \cup (IF b.started.result = Protocol /\ b.out_open
          THEN { outReceived([b EXCEPT !.out_pos = @ + k],
                             SubSeq(b.out_stream, b.out_pos + 1,
                                    b.out_pos + k)) :
                     k \in 1..(Len(b.out_stream) - b.out_pos) }
          ELSE {})
    \cup (IF b.transport # "None" /\ b.out_open
          THEN { outConnectionLost([b EXCEPT !.out_open = FALSE]) } ELSE {})
    \cup (IF b.transport # "None" /\ b.err_open
          THEN { errConnectionLost([b EXCEPT !.err_open = FALSE]) } ELSE {})
    \cup (IF b.transport = "pid" /\ ~b.killed
          THEN { [b EXCEPT !.transport = "exited"] } ELSE {})
    \cup (IF b.transport = "exited" \/ (b.transport = "pid" /\ b.killed)
          THEN { [b EXCEPT !.transport = "nopid"] } ELSE {})
    \cup (IF /\ b.transport = "nopid"
             /\ ~b.out_open
             /\ ~b.err_open
             /\ b.requests_done.state = "none"
          THEN { processEnded(b, r) :
                     r \in (IF b.killed THEN {ProcessTerminated(0, TRUE)}
                            ELSE Reasons) }
          ELSE {})

\* The other session takes a step.
OtherSteps ==
    /\ other # NoSession
    /\ \E next \in SessionSteps(other) :
           Becomes([State EXCEPT !.other = next])

\* Two sessions of one worker: one whose child writes a command that no
\* resource handles, and one whose child writes a log.info command.
InitSessions ==
    Is([New(<<"1", "b", NL>>, <<>>) EXCEPT
           !.other = New(<<"2", "a", SEP, "i", NL>>, <<>>)])

NextSessions ==
    \/ ProcessInSandbox
    \/ ConnectionMade
    \/ OutReceived
    \/ OutConnectionLost
    \/ ErrConnectionLost
    \/ ProcessExits
    \/ ProcessReaped
    \/ ProcessEnded
    \/ OtherSteps

SpecSessions == InitSessions /\ [][NextSessions]_vars

\* The run of a child that writes nothing to stderr and is not timed out.
InitFraming == InitWith(OutStreams, { <<>> })

NextFraming ==
    \/ ProcessInSandbox
    \/ ConnectionMade
    \/ OutReceived
    \/ OutConnectionLost
    \/ ErrConnectionLost
    \/ HandlerSettles
    \/ ProcessExits
    \/ ProcessReaped
    \/ ProcessEnded

SpecFraming == InitFraming /\ [][NextFraming]_vars

\* reactor.callLater(timeout, self.kill), set by __init__, comes due before
\* spawn() was called: kill() reads self.transport.pid of no transport and
\* raises, the reactor logs it, and the timer is spent.
TimeoutBeforeSpawn ==
    /\ timeout_task = "active"
    /\ transport = "None"
    /\ Becomes(kill([State EXCEPT !.timeout_task = "called"]))

NextConstructed == Next \/ TimeoutBeforeSpawn

\* The protocol from its construction on, with the timer of __init__.
SpecConstructed == InitTimeout /\ [][NextConstructed]_vars

\* The run of a child that writes to both pipes and is not timed out, while
\* the store answers nothing.
NextQuota ==
    \/ ProcessInSandbox
    \/ ConnectionMade
    \/ OutReceived
    \/ ErrReceived
    \/ OutConnectionLost
    \/ ErrConnectionLost
    \/ ProcessExits
    \/ ProcessReaped
    \/ ProcessEnded

SpecQuota == Init /\ [][NextQuota]_vars

\* SandboxRlimiter.spawn puts the limiter's variables in the env it was
\* given and starts the limiter with it.
OverrideChildEnv ==
    /\ child_env.step = "given"
    /\ \E python_path \in PythonPaths, rlimits \in RlimitsJson :
           Becomes([State EXCEPT
               !.child_env.env = override_child_env(@, python_path, rlimits),
               !.child_env.step = "overridden"])

\* SandboxRlimiter.execute, in the process spawned: os.environ is what spawn
\* passed, and _restore_child_env takes the limiter's variables out before
\* the executable is started with it.
RestoreChildEnv ==
    /\ child_env.step = "overridden"
    /\ child_env.env[SANDBOX_RLIMITS] # Unset
    /\ Becomes([State EXCEPT
           !.child_env.env = restore_child_env(@),
           !.child_env.step = "restored"])

\* The env of spawn_kwargs, any dict of the names of the model.
InitEnv ==
    \E env \in Envs : Is([New(<<>>, <<>>) EXCEPT !.child_env = ChildEnv(env)])

NextEnv == OverrideChildEnv \/ RestoreChildEnv

SpecEnv == InitEnv /\ [][NextEnv]_vars

\* The run with observers of its signals, for a child that writes one get
\* and one line of stderr.
InitSignals == InitWith({ <<"2", "b", SEP, "g", NL>> }, { <<"e", NL>> })

NextSignals == Next \/ ObserverGet

SpecSignals == InitSignals /\ [][NextSignals]_vars

RECURSIVE CmdsOf(_)
\* The command names of exactly n characters.
CmdsOf(n) ==
    IF n = 0 THEN { <<>> }
    ELSE { <<c>> \o rest : c \in CmdChars, rest \in CmdsOf(n - 1) }

\* Every command name of at most MaxCmdLen characters.
Cmds == UNION { CmdsOf(n) : n \in 0..MaxCmdLen }

\* The dispatcher of a started run, for a child that writes one command of
\* any name.
InitDispatch ==
    \E cmd_id \in CmdIds, cmd \in Cmds :
        Is(process_in_sandbox(
               New(to_json(SandboxCommand(cmd, cmd_id, FALSE)) \o <<NL>>, <<>>),
               TRUE))

NextDispatch == OutReceived \/ OutConnectionLost \/ HandlerSettles

SpecDispatch == InitDispatch /\ [][NextDispatch]_vars

\* ------------------------------------------------------------ RedisResource

\* A reply of RedisResource: value and existed hold the field when the reply
\* carries it.
Reply(success, why, value, existed) ==
    [success |-> success, reason |-> why, value |-> value,
     existed |-> existed]

\* returnValue(reply) of a handler.
returnValue(s, slot, reply_) ==
    [s EXCEPT !.handler_calls[slot].pc = "done",
              !.handler_calls[slot].reply = {reply_}]

\* yield self.redis.<call>: the store takes the call when it is made and
\* answers its calls in order; the handler waits at pc for the answer r.ret.
yield(s, slot, pc, r) ==
    [s EXCEPT !.redis = r.db,
              !.handler_calls[slot].pc = pc,
              !.handler_calls[slot].ret = r.ret,
              !.reply_queue = Append(@, slot)]

\* RedisResource._too_many_keys
too_many_keys == Reply(FALSE, "Too many keys", {}, {})

\* The mutant of handle_set_checked: a key that holds a value keeps it.
handle_set_checked_keeping(s, slot, ok) ==
    LET c == s.handler_calls[slot]
        key == sandboxed_key(c.sandbox_id, c.key)
        raw == IF s.redis[key] # Nil THEN s.redis[key]
               ELSE json_dumps(c.value) IN
    IF ~ok THEN returnValue(s, slot, too_many_keys)
    ELSE yield(s, slot, "set", redis_set(s.redis, key, raw))

\* handle_set once check_keys has returned ok.
handle_set_checked(s, slot, ok) ==
    LET c == s.handler_calls[slot]
        key == sandboxed_key(c.sandbox_id, c.key) IN
    IF ~ok THEN returnValue(s, slot, too_many_keys)
    ELSE yield(s, slot, "set", redis_set(s.redis, key, json_dumps(c.value)))

\* The mutant of handle_incr_checked: the amount of the command is not used.
handle_incr_checked_by_one(s, slot, ok) ==
    LET c == s.handler_calls[slot]
        key == sandboxed_key(c.sandbox_id, c.key) IN
    IF ~ok THEN returnValue(s, slot, too_many_keys)
    ELSE yield(s, slot, "incr", redis_incr(s.redis, key, 1))

\* handle_incr once check_keys has returned ok.
handle_incr_checked(s, slot, ok) ==
    LET c == s.handler_calls[slot]
        key == sandboxed_key(c.sandbox_id, c.key) IN
    IF ~ok THEN returnValue(s, slot, too_many_keys)
    ELSE yield(s, slot, "incr", redis_incr(s.redis, key, get_amount(c)))

\* returnValue(ok) of check_keys, back in the handler that called it.
check_keys_return(s, slot, ok) ==
    IF s.handler_calls[slot].op = "set"
    THEN handle_set_checked(s, slot, ok)
    ELSE handle_incr_checked(s, slot, ok)

\* RedisResource.check_keys, up to its first yield.
check_keys(s, slot) ==
    LET c == s.handler_calls[slot]
        key == sandboxed_key(c.sandbox_id, c.key) IN
    yield(s, slot, "check_keys_exists", redis_exists(s.redis, key))

\* The mutant of check_keys_resumed: the count is not taken back when the
\* key is refused.
check_keys_resumed_keeping_count(s, slot) ==
    LET c == s.handler_calls[slot]
        count_key_ == count_key(c.sandbox_id) IN
    CASE c.pc = "check_keys_exists" ->
           IF c.ret.n # 0 THEN check_keys_return(s, slot, TRUE)
           ELSE yield(s, slot, "check_keys_incr",
                      redis_incr(s.redis, count_key_, 1))
      [] c.pc = "check_keys_incr" ->
           check_keys_return(s, slot, c.ret.n <= KeysPerUser)

\* RedisResource.check_keys, from the yield it waits at to the next.
check_keys_resumed(s, slot) ==
    LET c == s.handler_calls[slot]
        count_key_ == count_key(c.sandbox_id) IN
    CASE c.pc = "check_keys_exists" ->
           IF c.ret.n # 0 THEN check_keys_return(s, slot, TRUE)
           ELSE yield(s, slot, "check_keys_incr",
                      redis_incr(s.redis, count_key_, 1))
      [] c.pc = "check_keys_incr" ->
           IF c.ret.n > KeysPerUser
           THEN yield(s, slot, "check_keys_decr",
                      redis_incr(s.redis, count_key_, -1))
           ELSE check_keys_return(s, slot, TRUE)
      [] c.pc = "check_keys_decr" -> check_keys_return(s, slot, FALSE)

\* RedisResource.handle_set, from the yield it waits at.
handle_set_resumed(s, slot) ==
    LET c == s.handler_calls[slot] IN
    IF c.pc = "set"
    THEN [returnValue(s, slot, Reply(TRUE, "", {}, {}))
             EXCEPT !.last_set[c.sandbox_id][c.key] = c.value]
    ELSE check_keys_resumed(s, slot)

\* The mutant of handle_incr_resumed: an incr the store refuses is treated
\* as an unknown command is.
handle_incr_resumed_killing(s, slot) ==
    LET c == s.handler_calls[slot] IN
    IF c.pc = "incr"
    THEN IF c.ret.ok
         THEN returnValue(s, slot, Reply(TRUE, "", {PyInt(c.ret.n)}, {}))
         ELSE returnValue(unknown_request(s), slot,
                          Reply(FALSE, "exception", {}, {}))
    ELSE check_keys_resumed(s, slot)

\* RedisResource.handle_incr, from the yield it waits at.
handle_incr_resumed(s, slot) ==
    LET c == s.handler_calls[slot] IN
    IF c.pc = "incr"
    THEN IF c.ret.ok
         THEN returnValue(s, slot, Reply(TRUE, "", {PyInt(c.ret.n)}, {}))
         ELSE returnValue(s, slot, Reply(FALSE, "exception", {}, {}))
    ELSE check_keys_resumed(s, slot)

\* RedisResource.handle_get, up to its yield and from it.
handle_get(s, slot) ==
    LET c == s.handler_calls[slot] IN
    yield(s, slot, "get",
          redis_get(s.redis, sandboxed_key(c.sandbox_id, c.key)))
handle_get_resumed(s, slot) ==
    LET raw_value == s.handler_calls[slot].ret.v
        value == IF raw_value # Nil THEN json_loads(raw_value) ELSE PyNone IN
    returnValue(s, slot, Reply(TRUE, "", {value}, {}))

\* RedisResource.handle_delete, up to its first yield and from each;
\* handle_delete_resumed_uncounted is the mutant that leaves the count of a
\* key that existed as it was.
handle_delete(s, slot) ==
    LET c == s.handler_calls[slot] IN
    yield(s, slot, "delete",
          redis_delete(s.redis, sandboxed_key(c.sandbox_id, c.key)))
handle_delete_resumed_uncounted(s, slot) ==
    LET c == s.handler_calls[slot] IN
    returnValue(s, slot, Reply(TRUE, "", {}, {c.ret.n # 0}))
handle_delete_resumed(s, slot) ==
    LET c == s.handler_calls[slot] IN
    IF c.pc = "delete"
    THEN IF c.ret.n # 0
         THEN yield(s, slot, "delete_decr",
                    redis_incr(s.redis, count_key(c.sandbox_id), -1))
         ELSE returnValue(s, slot, Reply(TRUE, "", {}, {FALSE}))
    ELSE returnValue(s, slot, Reply(TRUE, "", {}, {TRUE}))

\* The handler getattr(self, 'handle_%s' % cmd) finds is called in a free
\* slot and runs to its first yield.
handle(s, slot, c) ==
    LET s1 == [s EXCEPT !.handler_calls[slot] = [c EXCEPT !.before = s.redis],
                        !.calls_started = @ + 1] IN
    CASE c.op = "set" -> check_keys(s1, slot)
      [] c.op = "incr" -> check_keys(s1, slot)
      [] c.op = "get" -> handle_get(s1, slot)
      [] c.op = "delete" -> handle_delete(s1, slot)

\* The store's oldest unanswered call is answered and its handler runs on
\* to its next yield or to its return.
answered(s) ==
    LET slot == Head(s.reply_queue)
        s1 == [s EXCEPT !.reply_queue = Tail(@)]
        op == s.handler_calls[slot].op IN
    CASE op = "set" -> handle_set_resumed(s1, slot)
      [] op = "incr" -> handle_incr_resumed(s1, slot)
      [] op = "get" -> handle_get_resumed(s1, slot)
      [] op = "delete" -> handle_delete_resumed(s1, slot)

\* The slot a new call takes: the first that no handler is running in.
FreeSlots ==
    LET free == {slot \in 1..MaxInFlight :
                     handler_calls[slot].pc \in {"idle", "done"}} IN
    {slot \in free : \A free_slot \in free : slot <= free_slot}

\* The session sends set, incr, get or delete.
HandleSet ==
    /\ calls_started < MaxCalls
    /\ \E slot \in FreeSlots, id \in SandboxIds, key \in Keys, value \in Values :
           Becomes(handle(State, slot, Call("set", id, key, value, {})))
HandleIncr ==
    /\ calls_started < MaxCalls
    /\ \E slot \in FreeSlots, id \in SandboxIds, key \in Keys, amount \in Amounts :
           Becomes(handle(State, slot, Call("incr", id, key, PyNone, amount)))
HandleGet ==
    /\ calls_started < MaxCalls
    /\ \E slot \in FreeSlots, id \in SandboxIds, key \in Keys :
           Becomes(handle(State, slot, Call("get", id, key, PyNone, {})))
HandleDelete ==
    /\ calls_started < MaxCalls
    /\ \E slot \in FreeSlots, id \in SandboxIds, key \in Keys :
           Becomes(handle(State, slot, Call("delete", id, key, PyNone, {})))

\* The store answers its oldest call.
StoreAnswers ==
    /\ reply_queue # <<>>
    /\ Becomes(answered(State))

\* The store and the handlers of RedisResource, for one api.
InitKV == Is(New(<<>>, <<>>))

NextKV == HandleSet \/ HandleIncr \/ HandleGet \/ HandleDelete \/ StoreAnswers

SpecKV == InitKV /\ [][NextKV]_vars

\* A session that sends set and get only, each after the reply to the one
\* before.
NextKVSets ==
    \/ reply_queue = <<>> /\ HandleSet
    \/ reply_queue = <<>> /\ HandleGet
    \/ StoreAnswers

SpecKVSets == InitKV /\ [][NextKVSets]_vars

\* A session that sends each command after the reply to the one before.
NextKVSeq ==
    \/ reply_queue = <<>> /\ HandleSet
    \/ reply_queue = <<>> /\ HandleIncr
    \/ reply_queue = <<>> /\ HandleGet
    \/ reply_queue = <<>> /\ HandleDelete
    \/ StoreAnswers

SpecKVSeq == InitKV /\ [][NextKVSeq]_vars

\* The commands the sessions of one store send in a run of the model.
MaxSharedCalls == 3

\* Two sessions of one RedisResource: sandbox ids and keys are strings of
\* any characters, "#" among them.
SharedIds == { <<"s">>, <<"s", "#", "k">> }
SharedKeys == { <<"k">>, <<"k", "#", "k">> }

\* The store of both, empty.
InitKVShared ==
    Is([New(<<>>, <<>>) EXCEPT
           !.redis =
               [k \in {count_key(id) : id \in SharedIds}
                          \cup {sandboxed_key(id, key) :
                                    id \in SharedIds, key \in SharedKeys}
                   |-> Nil],
           !.last_set = [id \in SharedIds |-> [k \in SharedKeys |-> PyNone]]])

\* One of the sessions sends a command, after the reply to the one before.
HandleShared ==
    /\ calls_started < MaxSharedCalls
    /\ reply_queue = <<>>
    /\ \E slot \in FreeSlots, id \in SharedIds, key \in SharedKeys :
           \/ \E value \in Values :
                  Becomes(handle(State, slot, Call("set", id, key, value, {})))
           \/ \E amount \in Amounts :
                  Becomes(handle(State, slot,
                                 Call("incr", id, key, PyNone, amount)))
           \/ Becomes(handle(State, slot, Call("get", id, key, PyNone, {})))
           \/ Becomes(handle(State, slot, Call("delete", id, key, PyNone, {})))

NextKVShared == HandleShared \/ StoreAnswers

SpecKVShared == InitKVShared /\ [][NextKVShared]_vars

\* ------------------------------------------------------- BaseWorker stages

\* A Deferred that runs callbacks: the call that returned it, the callbacks
\* then_call has added to it and that have not run, and its current result.
Frame(call, callbacks, result) ==
    [call |-> call, callbacks |-> callbacks, result |-> result]

event(s, call, ev) ==
    [s EXCEPT !.worker.trace = Append(@, [call |-> call, ev |-> ev])]

\* The mutant of then_call: func is called whatever came before it.
then_call_always(result) == TRUE

\* then_call: d.addCallback(lambda r: func(...)) calls func when the result
\* that reaches it is not a Failure, and passes a Failure on.
then_call(result) == result = "ok"

\* BaseWorker.startWorker: maybeDeferred(self._validate_config), which
\* returns or raises, and the four stages added with then_call.
startWorker(s, valid) ==
    LET call == Stage("_validate_config", 0)
        result == IF valid THEN "ok" ELSE "failure"
        s1 == event(event(s, call, "called"), call, result) IN
    [s1 EXCEPT !.worker.results.startWorker = "pending",
               !.worker.stack =
                   << Frame(Stage("startWorker", 0),
                            << Stage("setup_heartbeat", 0),
                               Stage("setup_middleware", 0),
                               Stage("setup_connectors", 0),
                               Stage("setup_worker", 0) >>,
                            result) >>]

\* BaseWorker.stopWorker: succeed(None) and the four stages added with
\* then_call.
stopWorker(s) ==
    [s EXCEPT !.worker.results.stopWorker = "pending",
              !.worker.stack =
                  << Frame(Stage("stopWorker", 0),
                           << Stage("teardown_worker", 0),
                              Stage("teardown_connectors", 0),
                              Stage("teardown_middleware", 0),
                              Stage("teardown_heartbeat", 0) >>,
                           "ok") >>]

\* setup_middlewares_from_config: the middlewares of the config, in the
\* order the config names them.
setup_middlewares_from_config(config) == config.middlewares

\* setup_connectors of a subclass: setup_connector for each of its
\* connectors, one after the other.
setup_connectors(s) ==
    [i \in 1..s.worker.config.connectors |-> Stage("setup_connector", i)]

\* BaseWorker.teardown_connectors: then_call(d, self.teardown_connector,
\* connector_name) for the names as self.connectors.keys() gives them.
teardown_connectors(s, names) ==
    [i \in 1..Len(names) |-> Stage("teardown_connector", names[i])]

\* The mutant of teardown_middleware: in the order of self.middlewares.
teardown_middleware_in_order(s) ==
    [i \in 1..Len(s.worker.middlewares) |->
        Stage("mw.teardown_middleware", s.worker.middlewares[i])]

\* BaseWorker.teardown_middleware: then_call(d, mw.teardown_middleware) for
\* mw in reversed(self.middlewares).
teardown_middleware(s) ==
    [i \in 1..Len(s.worker.middlewares) |->
        Stage("mw.teardown_middleware", Reverse(s.worker.middlewares)[i])]

\* ApplicationWorker.setup_worker: maybeDeferred(self.setup_application),
\* then unpause_connectors when UNPAUSE_CONNECTORS is set.
setup_worker(s) ==
    << Stage("setup_application", 0) >>
        \o (IF s.worker.config.unpause
            THEN << Stage("unpause_connectors", 0) >>
            ELSE << >>)

\* The mutant of pause_connectors: no connector is paused.
pause_connectors_none(s) == s

\* BaseWorker.pause_connectors: connector.pause() for every connector of
\* self.connectors.
pause_connectors(s) ==
    [s EXCEPT !.worker.connector_objects =
        [name \in DOMAIN @ |-> [@[name] EXCEPT !.paused = TRUE]]]

\* BaseWorker.unpause_connectors: connector.unpause() for every connector of
\* self.connectors.
unpause_connectors(s) ==
    [s EXCEPT !.worker.connector_objects =
        [name \in DOMAIN @ |->
            IF name \in s.worker.connectors
            THEN [@[name] EXCEPT !.paused = FALSE]
            ELSE @[name]]]

\* ApplicationWorker.teardown_worker: self.pause_connectors(), then
\* teardown_application.
teardown_worker(s) ==
    LET call == Stage("pause_connectors", 0) IN
    event(event(pause_connectors(s), call, "called"), call, "ok")

\* How a call that has been made may end. setup_heartbeat without a
\* worker_name only logs, teardown_heartbeat only stops a publisher and
\* unpause_connectors only unpauses consumers; every other stage is a
\* subclass's, a connector's or a middleware's and may fail.
Outcomes(s, call) ==
    IF \/ call.func = "setup_heartbeat" /\ ~s.worker.config.worker_name
       \/ call.func = "teardown_heartbeat"
       \/ call.func = "unpause_connectors"
    THEN {TRUE}
    ELSE BOOLEAN

\* The Deferred of a call fires, or the call returns or raises: the result
\* of the Deferred whose callback made the call becomes this one.
\* setup_heartbeat, setup_middleware's d.addCallback(self.middlewares.extend),
\* a connector's setup(), unpause_connectors and teardown_heartbeat take
\* effect when they succeed. A call that no Deferred's callback has made
\* ends for its caller.
stage_ends(s, call, ok) ==
    LET top == Len(s.worker.stack)
        result == IF ok THEN "ok" ELSE "failure"
        s0 == [event(s, call, result) EXCEPT !.worker.running = NoStage]
        s1 == IF top = 0 THEN s0
              ELSE [s0 EXCEPT !.worker.stack[top].result = result] IN
    IF ~ok THEN s1
    ELSE CASE call.func = "setup_heartbeat" ->
                  IF s.worker.config.worker_name
                  THEN [s1 EXCEPT !.worker.hb_pub = "publisher"]
                  ELSE s1
           [] call.func = "setup_middleware" ->
                  [s1 EXCEPT !.worker.middlewares =
                      @ \o setup_middlewares_from_config(s.worker.config)]
           [] call.func = "teardown_heartbeat" ->
                  [s1 EXCEPT !.worker.hb_pub = "None"]
           [] call.func = "setup_connector" ->
                  [s1 EXCEPT !.worker.connector_objects[call.arg].ready = TRUE]
           [] call.func = "unpause_connectors" -> unpause_connectors(s1)
           [] OTHER -> s1

\* The mutant of call_stage: setup_connector does not look for the name in
\* self.connectors.
call_stage_unchecked(s, call, names) ==
    LET s1 == event(s, call, "called")
        wait == [s1 EXCEPT !.worker.running = call] IN
    IF call.func = "setup_connector"
    THEN [wait EXCEPT !.worker.connectors = @ \cup {call.arg},
                      !.worker.connector_objects[call.arg] =
                          Connector(s.worker.created + 1),
                      !.worker.created = @ + 1]
    ELSE wait

\* A call is made. A stage that returns a Deferred with callbacks of its own
\* puts that Deferred on the stack; setup_connector raises
\* DuplicateConnectorError or builds the connector and adds it, and
\* teardown_connector pops it, before the connector is asked;
\* teardown_worker pauses the connectors first.
call_stage(s, call, names) ==
    LET s1 == event(s, call, "called")
        push(callbacks) ==
            [s1 EXCEPT !.worker.stack = Append(@, Frame(call, callbacks, "ok"))]
        wait == [s1 EXCEPT !.worker.running = call] IN
    CASE call.func = "setup_connectors" -> push(setup_connectors(s))
      [] call.func = "teardown_connectors" ->
             push(teardown_connectors(s, names))
      [] call.func = "teardown_middleware" -> push(teardown_middleware(s))
      [] call.func = "setup_worker" -> push(setup_worker(s))
      [] call.func = "teardown_worker" ->
             [teardown_worker(s1) EXCEPT
                 !.worker.stack =
                     Append(@, Frame(call, << Stage("teardown_application", 0) >>,
                                     "ok"))]
      [] call.func = "setup_connector" ->
             IF call.arg \in s.worker.connectors
             THEN stage_ends(wait, call, FALSE)
             ELSE [wait EXCEPT !.worker.connectors = @ \cup {call.arg},
                               !.worker.connector_objects[call.arg] =
                                   Connector(s.worker.created + 1),
                               !.worker.created = @ + 1]
      [] call.func = "teardown_connector" ->
             [wait EXCEPT !.worker.connectors = @ \ {call.arg},
                          !.worker.connector_objects[call.arg] = Connector(0)]
      [] OTHER -> wait

\* Deferred._runCallbacks of the innermost Deferred: the next callback makes
\* its call, or, with no callback left that is called, the result goes to
\* the Deferred that waits for this one, or to the caller of startWorker or
\* stopWorker.
run_callbacks(s, names) ==
    LET top == Len(s.worker.stack)
        d == s.worker.stack[top] IN
    IF d.callbacks # <<>> /\ then_call(d.result)
    THEN call_stage([s EXCEPT !.worker.stack[top].callbacks = Tail(@)],
                    Head(d.callbacks), names)
    ELSE LET s1 == event([s EXCEPT !.worker.stack = SubSeq(@, 1, top - 1)],
                         d.call, d.result) IN
         IF top = 1
         THEN [s1 EXCEPT !.worker.results[d.call.func] = d.result]
         ELSE [s1 EXCEPT !.worker.stack[top - 1].result = d.result]

\* The worker is started.
StartWorker ==
    /\ worker.results.startWorker = "none"
    /\ \E valid \in BOOLEAN : Becomes(startWorker(State, valid))

\* The worker is stopped, once startWorker's Deferred has fired.
StopWorker ==
    /\ worker.results.startWorker \in {"ok", "failure"}
    /\ worker.results.stopWorker = "none"
    /\ worker.running = NoStage
    /\ Becomes(stopWorker(State))

\* The innermost Deferred has a result and runs its callbacks on.
RunCallbacks ==
    /\ worker.stack # <<>>
    /\ worker.running = NoStage
    /\ \E names \in keys(worker.connectors) :
           Becomes(run_callbacks(State, names))

\* The call that is being waited for ends.
StageEnds ==
    /\ worker.running # NoStage
    /\ \E ok \in Outcomes(State, worker.running) :
           Becomes(stage_ends(State, worker.running, ok))

\* A worker of any config, before it is started.
InitWorker ==
    \E config \in Configs :
        Is([New(<<>>, <<>>) EXCEPT !.worker = BaseWorker(config)])

NextWorker == StartWorker \/ StopWorker \/ RunCallbacks \/ StageEnds

SpecWorker == InitWorker /\ [][NextWorker]_vars

\* The worker that has started calls setup_connector, for a connector it
\* has or for a new one.
SetupConnector ==
    /\ worker.results.startWorker = "ok"
    /\ worker.results.stopWorker = "none"
    /\ worker.running = NoStage
    /\ worker.setups < MaxSetups
    /\ \E name \in 1..MaxConnectors :
           Becomes(call_stage([State EXCEPT !.worker.setups = @ + 1],
                              Stage("setup_connector", name), << >>))

NextConnectors == NextWorker \/ SetupConnector

\* ----------------------------------------------- ApplicationWorker messages

SessionEvents == {"new", "close", "resume", "None"}
EventTypes == {"ack", "nack", "delivery_report", "other", "None"}
Endpoints == {"default", "other"}

\* A message of a kind (inbound, event, outbound) with its session_event or
\* event_type, and what the middlewares it passed have recorded on it.
Message(kind, type) == [kind |-> kind, type |-> type, record |-> <<>>]

handler_called(s, handler, message) ==
    [s EXCEPT !.worker.handled =
        Append(@, [handler |-> handler, message |-> message])]

\* ApplicationWorker.consume_user_message
consume_user_message(s, message) ==
    handler_called(s, "consume_user_message", message)

\* The mutant of new_session: the message is not passed on.
new_session_alone(s, message) == handler_called(s, "new_session", message)

\* ApplicationWorker.new_session
new_session(s, message) ==
    consume_user_message(handler_called(s, "new_session", message), message)

\* ApplicationWorker.close_session
close_session(s, message) == handler_called(s, "close_session", message)

\* ApplicationWorker.dispatch_user_message, _dispatch_user_message_raw with
\* the _session_handlers of setup_worker
dispatch_user_message(s, message) ==
    CASE message.type = "new" -> new_session(s, message)
      [] message.type = "close" -> close_session(s, message)
      [] OTHER -> consume_user_message(s, message)

\* The mutant of dispatch_event: an event_type without a handler of its own
\* raises KeyError.
dispatch_event_strict(s, e) ==
    CASE e.type = "ack" -> handler_called(s, "consume_ack", e)
      [] e.type = "nack" -> handler_called(s, "consume_nack", e)
      [] e.type = "delivery_report" ->
             handler_called(s, "consume_delivery_report", e)
      [] OTHER -> [s EXCEPT !.worker.errors = @ + 1]

\* ApplicationWorker.dispatch_event, _dispatch_event_raw with the
\* _event_handlers of setup_worker
dispatch_event(s, e) ==
    CASE e.type = "ack" -> handler_called(s, "consume_ack", e)
      [] e.type = "nack" -> handler_called(s, "consume_nack", e)
      [] e.type = "delivery_report" ->
             handler_called(s, "consume_delivery_report", e)
      [] OTHER -> handler_called(s, "consume_unknown_event", e)

\* The mutant of middlewares_of: the connector is given no middlewares.
middlewares_of_none(s, middleware) == << >>

\* BaseWorker.setup_connector: the connector is given self.middlewares, the
\* list setup_middleware has extended, or None.
middlewares_of(s, middleware) ==
    IF middleware THEN s.worker.middlewares ELSE << >>

\* MiddlewareStack.apply_consume: the middlewares handle the message in
\* their order, each recording itself on it.
apply_consume(middlewares, direction, message) ==
    [message EXCEPT !.record =
        @ \o [i \in 1..Len(middlewares) |-> <<middlewares[i], direction>>]]

\* MiddlewareStack.apply_publish: the middlewares handle the message in
\* the reverse of their order.
apply_publish(middlewares, direction, message) ==
    apply_consume(Reverse(middlewares), direction, message)

\* The connector that setup_ri_connector has set up consumes a message: it
\* passes the middlewares, then reaches the handler setup_connectors has
\* set, dispatch_user_message or dispatch_event.
consume(s, message) ==
    LET m == apply_consume(middlewares_of(s, TRUE), message.kind, message)
        s1 == [s EXCEPT !.worker.messages = @ + 1,
                        !.worker.consumed = Append(@, message)] IN
    IF message.kind = "inbound"
    THEN dispatch_user_message(s1, m)
    ELSE dispatch_event(s1, m)

\* ApplicationWorker._publish_message: publish_outbound of the connector of
\* transport_name, where the message passes the middlewares and is
\* published.
publish_message(s, message, endpoint_name) ==
    [s EXCEPT !.worker.published =
        Append(@, [endpoint |-> endpoint_name,
                   message |-> apply_publish(middlewares_of(s, TRUE),
                                             "outbound", message)])]

\* ApplicationWorker.reply_to
reply_to(s, original_message) ==
    publish_message([s EXCEPT !.worker.messages = @ + 1],
                    Message("outbound", "None"), "default")

\* The mutant of send_to: ALLOWED_ENDPOINTS is not looked at.
send_to_any(s, tag, endpoint) ==
    publish_message([s EXCEPT !.worker.messages = @ + 1,
                              !.worker.send_to_calls =
                                  Append(@, [tag |-> tag,
                                             endpoint |-> endpoint])],
                    Message("outbound", "None"),
                    IF endpoint = "None" THEN tag ELSE endpoint)

\* ApplicationWorker.send_to; endpoint "None" is no endpoint given.
send_to(s, tag, endpoint) ==
    LET ep == IF endpoint = "None" THEN tag ELSE endpoint
        s1 == [s EXCEPT !.worker.messages = @ + 1,
                        !.worker.send_to_calls =
                            Append(@, [tag |-> tag, endpoint |-> endpoint])] IN
    IF ~s.worker.ALLOWED_ENDPOINTS.any
           /\ ep \notin s.worker.ALLOWED_ENDPOINTS.names
    THEN [s1 EXCEPT !.worker.errors = @ + 1]
    ELSE publish_message(s1, Message("outbound", "None"), ep)

\* The worker has started, is not being stopped, and the connector of its
\* transport_name is set up.
Running ==
    /\ worker.results.startWorker = "ok"
    /\ worker.results.stopWorker = "none"
    /\ 1 \in worker.connectors
    /\ worker.connector_objects[1].ready
    /\ worker.messages < MaxMessages

\* The unpaused connector delivers a user message.
ConsumeUserMessage ==
    /\ Running
    /\ ~worker.connector_objects[1].paused
    /\ \E type \in SessionEvents :
           Becomes(consume(State, Message("inbound", type)))

\* The unpaused connector delivers an event.
ConsumeEvent ==
    /\ Running
    /\ ~worker.connector_objects[1].paused
    /\ \E type \in EventTypes :
           Becomes(consume(State, Message("event", type)))

\* The application replies to a user message it was given.
ReplyTo ==
    /\ Running
    /\ \E i \in 1..Len(worker.handled) :
           /\ worker.handled[i].message.kind = "inbound"
           /\ Becomes(reply_to(State, worker.handled[i].message))

\* The application sends a message of its own.
SendTo ==
    /\ Running
    /\ \E tag \in Endpoints, endpoint \in Endpoints \cup {"None"} :
           Becomes(send_to(State, tag, endpoint))

\* The workers that have a worker_name, unpause their connectors and set at
\* least one up.
InitMessages ==
    \E config \in Configs :
        /\ config.worker_name
        /\ config.unpause
        /\ config.connectors >= 1
        /\ Is([New(<<>>, <<>>) EXCEPT !.worker = BaseWorker(config)])

NextMessages ==
    \/ StartWorker
    \/ RunCallbacks
    \/ StageEnds
    \/ ConsumeUserMessage
    \/ ConsumeEvent
    \/ ReplyTo

SpecMessages == InitMessages /\ [][NextMessages]_vars

\* What a class may have as ALLOWED_ENDPOINTS: None, the default, or the
\* SEND_TO_TAGS that _validate_config has put there.
AllowedEndpoints ==
    { [any |-> TRUE, names |-> {}] }
        \cup { [any |-> FALSE, names |-> names] :
                   names \in (SUBSET Endpoints) }

\* Such workers, of classes with any ALLOWED_ENDPOINTS.
InitSendTo ==
    \E config \in Configs, allowed \in AllowedEndpoints :
        /\ config.worker_name
        /\ config.unpause
        /\ config.connectors >= 1
        /\ Is([New(<<>>, <<>>) EXCEPT
                  !.worker = [BaseWorker(config) EXCEPT
                                 !.ALLOWED_ENDPOINTS = allowed]])

NextSendTo == StartWorker \/ RunCallbacks \/ StageEnds \/ SendTo

SpecSendTo == InitSendTo /\ [][NextSendTo]_vars

\* A worker without middlewares, before it is started.
InitConnectors ==
    \E config \in { c \in Configs : c.middlewares = <<>> } :
        Is([New(<<>>, <<>>) EXCEPT !.worker = BaseWorker(config)])

SpecConnectors == InitConnectors /\ [][NextConnectors]_vars

\* ------------------------------------------------------------------ claims

Requests == DOMAIN pending_requests
Settled(i) == pending_requests[i].state # "pending"
FailedRequests == {i \in Requests : pending_requests[i].state = "failed"}

\* C1: once done has fired, every dispatched command has settled, each failed
\* one has been logged, and done holds the result of the exit; a process that
\* has ended with every dispatch settled has fired done.
C1_DoneWaitsForRequests ==
    /\ fired(done) =>
           /\ \A i \in Requests : Settled(i)
           /\ log_errors["request_failed"] = Cardinality(FailedRequests)
           /\ done.result = exit_result(reason)
    /\ (requests_done.state # "none" /\ \A i \in Requests : Settled(i)) =>
           /\ fired(done)
           /\ done.result = exit_result(reason)

\* C1 witness: done has fired after a dispatch failed and another succeeded.
C1_Witness ==
    /\ fired(done)
    /\ \E i, j \in Requests :
           /\ pending_requests[i].state = "failed"
           /\ pending_requests[j].handler = <<"g">>
           /\ pending_requests[j].state = "succeeded"

\* C2 as claimed: a started process that exits on its own with code N makes
\* the run return N, zero or not; None is returned only for a process that
\* failed to start or was ended by a signal.
C2_Original ==
    status # Pending =>
        IF started.result = Protocol /\ ~reason.signal
        THEN status = Status(reason.status)
        ELSE status = None

\* C2 amended: the run returns 0 for a started process that ends with
\* ProcessDone (exit code 0), and None in every other case: a failed start, a
\* signal, or a non-zero exit code, each logged as an error.
C2_StatusOfRun ==
    status # Pending =>
        IF started.result = Protocol /\ reason = ProcessDone
        THEN status = Status(0)
        ELSE /\ status = None
             /\ log_errors["start_failed"] + log_errors["process_terminated"] = 1

\* C2 witness: a started process has exited with code 1 and the run has
\* returned None.
C2_Witness ==
    /\ started.result = Protocol
    /\ reason = ProcessTerminated(1, FALSE)
    /\ status = None

\* C3: a batch that leaves the received byte count above the quota calls
\* kill and changes nothing else: no command is dispatched, no stderr line
\* logged, nothing buffered, whichever stream it came from.
C3_QuotaStopsProcessing ==
    [][(recv_bytes' # recv_bytes /\ recv_bytes' > RecvLimit) =>
           /\ kill_calls' = kill_calls + 1
           /\ pending_requests' = pending_requests
           /\ log_errors' = log_errors
           /\ log_info' = log_info
           /\ written' = written
           /\ chunk' = chunk
           /\ error_chunk' = error_chunk]_vars

\* C3 witness: two batches have arrived above the quota, on both streams
\* together, and every kill so far came from check_recv.
C3_Witness ==
    /\ recv_bytes > RecvLimit
    /\ kill_calls >= 2
    /\ out_pos > 0
    /\ err_pos > 0
    /\ log_errors["unknown_command"] = 0
    /\ timeout_task = "active"

\* The lines of the stdout bytes delivered so far.
DeliveredParts == split(SubSeq(out_stream, 1, out_pos))
\* The request that the line `line` must have produced.
DispatchedFrom(q, line) ==
    IF from_json_ok(line)
    THEN q.cmd = Tail(line) /\ q.cmd_id = line[1]
    ELSE q.cmd = UNKNOWN /\ q.line = line /\ q.resource = <<"fallback">>

\* C6: while the quota holds, every complete line delivered has been
\* dispatched, in order: a line that parses as itself, a line that does not as
\* the command "unknown" carrying the line; a bad line stops nothing after it.
C6_BadLineIsUnknownCommand ==
    recv_bytes <= RecvLimit =>
        LET n == Len(DeliveredParts)
            flushed == IF ~out_open /\ DeliveredParts[n] # <<>> THEN 1 ELSE 0
        IN  /\ Len(pending_requests) = (n - 1) + flushed
            /\ \A i \in Requests :
                   DispatchedFrom(pending_requests[i], DeliveredParts[i])

\* C6 witness: a line that does not parse was dispatched as "unknown" and the
\* line after it as a command of its own.
C6_Witness ==
    /\ Len(pending_requests) = 2
    /\ pending_requests[1].cmd = UNKNOWN
    /\ pending_requests[1].line = <<Garbage>>
    /\ pending_requests[2].cmd = <<"b", SEP, "g">>

\* C10: when started has fired with the failure of processEnded, the run has
\* returned None, no sandbox_init hook has run and nothing has been written
\* to the child.
C10_FailedStart ==
    started.result = StartFailure =>
        /\ requests_done.state # "none"
        /\ status = None
        /\ init_calls = {}
        /\ written = <<>>
        /\ log_errors["start_failed"] = 1

\* C10 witness: the process ended before connectionMade.
C10_Witness ==
    /\ started.result = StartFailure
    /\ status = None
    /\ fired(done)

\* The requests whose verb has no handler on the resource they were routed to.
UnknownRequests ==
    {i \in Requests :
        pending_requests[i].rest
            \notin handlers[resource_for(pending_requests[i].resource_name).cls]}
\* The replies written to the child.
Replies == {k \in DOMAIN written : written[k].reply}

\* C5: every command whose verb has no handler on its resource, which
\* includes every command routed to the fallback resource, has logged one
\* error and called kill, and no reply to it has been written.
C5_UnknownCommandKills ==
    /\ log_errors["unknown_command"] = Cardinality(UnknownRequests)
    /\ kill_calls >= Cardinality(UnknownRequests)
    /\ \A i \in Requests :
           pending_requests[i].resource = <<"fallback">> => i \in UnknownRequests
    /\ \A i \in UnknownRequests :
           /\ pending_requests[i].handler = <<"unknown_request">>
           /\ pending_requests[i].state = "succeeded"
           /\ \A k \in Replies : written[k].cmd_id # pending_requests[i].cmd_id

\* C5 witness: a command for the registered resource a with a verb it does
\* not handle has been dispatched.
C5_Witness ==
    /\ Len(pending_requests) = 1
    /\ pending_requests[1].cmd = <<"a", SEP, "g">>
    /\ pending_requests[1].resource = <<"a">>
    /\ kill_calls = 1

\* Whether c occurs in the string str.
Occurs(c, str) == \E k \in DOMAIN str : str[k] = c

\* C7: a command "a.<verb>" goes to resource a with the handler name <verb>
\* and to no handler of b; in general the resource name is the text before
\* the first '.' of cmd and the handler name the text after it.
C7_RoutedByFirstSeparator ==
    \A i \in Requests :
        LET q == pending_requests[i] IN
        /\ Occurs(SEP, q.cmd) =>
               /\ q.resource_name \o <<SEP>> \o q.rest = q.cmd
               /\ ~Occurs(SEP, q.resource_name)
        /\ (Len(q.cmd) >= 2 /\ q.cmd[1] = "a" /\ q.cmd[2] = SEP) =>
               /\ q.resource = <<"a">>
               /\ q.rest = SubSeq(q.cmd, 3, Len(q.cmd))
               /\ q.handler = IF q.rest \in handlers[resources[<<"a">>]]
                              THEN q.rest ELSE <<"unknown_request">>
               /\ q.state # "pending"
               /\ log_info = IF q.rest = <<"i">> THEN 1 ELSE 0

\* C7 witness: "a.i" has been handled by a's handler i.
C7_Witness ==
    /\ Len(pending_requests) = 1
    /\ pending_requests[1].cmd = <<"a", SEP, "i">>
    /\ pending_requests[1].resource = <<"a">>
    /\ pending_requests[1].handler = <<"i">>
    /\ log_info = 1

\* C8: every reply written to the child has reply=true and answers one
\* dispatched request: it carries that request's cmd_id and the cmd exactly
\* as the child sent it.
C8_ReplyEchoesCommand ==
    \A k \in Replies :
        /\ written[k].reply = TRUE
        /\ \E i \in Requests :
               /\ written[k].cmd_id = pending_requests[i].cmd_id
               /\ written[k].cmd = pending_requests[i].cmd
               /\ pending_requests[i].state = "succeeded"

\* C8 witness: the reply to a "b.g" that the store answered has been written.
C8_Witness ==
    \E k \in Replies :
        /\ written[k].cmd = <<"b", SEP, "g">>
        /\ written[k].cmd_id = "2"

\* C9: a Deferred got from started() or done() has fired at most once; once
\* its signal has fired it has fired exactly once, with the signal's value,
\* whether it was got before the signal fired or after; before, it has not.
C9_AwaitersFireOnce ==
    \A d \in DOMAIN deferreds :
        LET md == IF deferreds[d].sig = "started" THEN started ELSE done IN
        /\ deferreds[d].fires <= 1
        /\ fired(md) => /\ deferreds[d].fires = 1
                        /\ deferreds[d].value = md.result
        /\ ~fired(md) => /\ deferreds[d].fires = 0
                         /\ \E k \in DOMAIN md.deferreds : md.deferreds[k] = d

\* C9 witness: two observers of done, one got before it fired and one after,
\* have both fired, beside the run's own.
C9_Witness ==
    \E d1, d2, d3 \in DOMAIN deferreds :
        /\ deferreds[d1].sig = "done" /\ deferreds[d1].owner = "observer"
        /\ deferreds[d2].sig = "done" /\ deferreds[d2].owner = "observer"
        /\ deferreds[d3].sig = "done" /\ deferreds[d3].owner = "run"
        /\ ~deferreds[d1].late
        /\ deferreds[d2].late
        /\ deferreds[d1].fires = 1
        /\ deferreds[d2].fires = 1
        /\ deferreds[d3].fires = 1

\* The keys of a session that the store holds a value for.
StoredKeys(sandbox_id) ==
    {k \in Keys : redis[sandboxed_key(sandbox_id, k)] # Nil}

\* C4: whatever the interleaving of a session's set, incr and delete
\* handlers at their store calls, the store never holds more than
\* keys_per_user distinct keys of the session.
C4_KeysWithinQuota ==
    \A id \in SandboxIds : Cardinality(StoredKeys(id)) <= KeysPerUser

InboundAt == {k \in DOMAIN written : written[k].cmd = <<"inbound-message">>}
InitializeAt == {k \in DOMAIN written : written[k].cmd = <<"initialize">>}

\* C12: hooks are invoked and the triggering command written only in a run
\* whose process was spawned and whose started fired with success, and then
\* at once; the triggering command is written once, with the sandbox_init
\* hook of every registered resource invoked, and after everything the hooks
\* sent (the js resource's initialize); replies follow it.
C12_RunStepsInOrder ==
    /\ Cardinality(InboundAt) <= 1
    /\ (init_calls # {} \/ InboundAt # {} \/ InitializeAt # {}) =>
           /\ transport # "None"
           /\ started.result = Protocol
    /\ started.result = Protocol =>
           /\ init_calls = DOMAIN resources
           /\ Cardinality(InitializeAt) = 1
           /\ InboundAt # {}
    /\ \A k \in InboundAt :
           /\ \A i \in InitializeAt : i < k
           /\ \A i \in Replies : k < i

\* C12 witness: initialize, then the triggering command, then a reply have
\* been written to the child.
C12_Witness ==
    /\ Len(written) = 3
    /\ written[1].cmd = <<"initialize">>
    /\ written[2].cmd = <<"inbound-message">>
    /\ written[3].reply
    /\ init_calls = DOMAIN resources

\* The call in slot returns in this step.
Returns(slot, op) ==
    /\ handler_calls[slot].op = op
    /\ handler_calls[slot].pc \notin {"idle", "done"}
    /\ handler_calls'[slot].pc = "done"

\* C13: in a session of sets and gets, every get replies success with the
\* value of the last set on its key that was answered with success, and with
\* None when there was none.
C13_GetReturnsLastSet ==
    [][\A slot \in DOMAIN handler_calls :
           Returns(slot, "get") =>
               LET c == handler_calls[slot] IN
               handler_calls'[slot].reply =
                   {Reply(TRUE, "", {last_set[c.sandbox_id][c.key]}, {})}]_vars

\* C13 witness: a get has returned 1 after three other commands.
C13_Witness ==
    \E slot \in DOMAIN handler_calls :
        /\ handler_calls[slot].op = "get"
        /\ handler_calls[slot].pc = "done"
        /\ handler_calls[slot].reply = {Reply(TRUE, "", {PyInt(1)}, {})}
        /\ calls_started = MaxCalls

\* The session's tracked key count in the store db.
Count(db, sandbox_id) == db[count_key(sandbox_id)].n

\* C14: a set or incr of a key the store did not hold, called with the
\* session's tracked count equal to keys_per_user, replies "Too many keys"
\* and leaves the store, the tracked count with it, as it was before.
C14_QuotaRefusesNewKey ==
    [][\A slot \in DOMAIN handler_calls :
           LET c == handler_calls[slot] IN
           (/\ Returns(slot, "set") \/ Returns(slot, "incr")
            /\ c.before[sandboxed_key(c.sandbox_id, c.key)] = Nil
            /\ Count(c.before, c.sandbox_id) = KeysPerUser) =>
               /\ handler_calls'[slot].reply = {too_many_keys}
               /\ redis' = c.before]_vars

\* C14 witness: a set of a new key has been refused with keys_per_user keys
\* stored and counted, and the store is as the set found it.
C14_Witness ==
    \E slot \in DOMAIN handler_calls :
        LET c == handler_calls[slot] IN
        /\ c.op = "set"
        /\ c.reply = {too_many_keys}
        /\ c.before[sandboxed_key(c.sandbox_id, c.key)] = Nil
        /\ Count(c.before, c.sandbox_id) = KeysPerUser
        /\ Cardinality(StoredKeys(c.sandbox_id)) = KeysPerUser
        /\ redis = c.before

\* What the call c found under its key when it was called.
Found(c) == c.before[sandboxed_key(c.sandbox_id, c.key)]

\* The store differs from what the call c found at most under c's key and
\* the session's count.
OthersKept(c) ==
    \A k \in StoreKeys \ {sandboxed_key(c.sandbox_id, c.key),
                          count_key(c.sandbox_id)} :
        redis'[k] = c.before[k]

\* C15: an incr of a key the store does not hold, with the quota not used
\* up, stores the command's amount (1 when it has none) under the key,
\* replies with it and raises the session's tracked count by one; an incr of
\* a key that holds an integer adds the amount, replies with the sum and
\* leaves the tracked count as it was.
C15_IncrCreatesOrAdds ==
    [][\A slot \in DOMAIN handler_calls :
           Returns(slot, "incr") =>
               LET c == handler_calls[slot]
                   key == sandboxed_key(c.sandbox_id, c.key)
                   amount == IF c.amount = {2} THEN 2 ELSE 1 IN
               /\ (Found(c) = Nil /\ Count(c.before, c.sandbox_id) < KeysPerUser) =>
                      /\ handler_calls'[slot].reply =
                             {Reply(TRUE, "", {PyInt(amount)}, {})}
                      /\ redis'[key] = Digits(amount)
                      /\ Count(redis', c.sandbox_id)
                             = Count(c.before, c.sandbox_id) + 1
                      /\ OthersKept(c)
               /\ Found(c).kind = "digits" =>
                      /\ handler_calls'[slot].reply =
                             {Reply(TRUE, "", {PyInt(Found(c).n + amount)}, {})}
                      /\ redis'[key] = Digits(Found(c).n + amount)
                      /\ redis'[count_key(c.sandbox_id)]
                             = c.before[count_key(c.sandbox_id)]
                      /\ OthersKept(c)]_vars

\* C15 witness: an incr without amount after an incr by 2 of a new key has
\* replied 3, with one key counted.
C15_Witness ==
    \E slot \in DOMAIN handler_calls :
        /\ handler_calls[slot].op = "incr"
        /\ handler_calls[slot].amount = {}
        /\ Found(handler_calls[slot]) = Digits(2)
        /\ handler_calls[slot].reply = {Reply(TRUE, "", {PyInt(3)}, {})}
        /\ Count(redis, handler_calls[slot].sandbox_id) = 1
        /\ calls_started = 2

C17_ApiBoundOnce ==
    /\ api.calls >= 1
    /\ api.sandbox = "protocol"
    /\ api.raised = api.calls - 1

\* C17 witness: set_sandbox has raised for every protocol built after the
\* first, and the run has returned.
C17_Witness ==
    /\ api.calls = MaxRebinds + 1
    /\ api.raised = MaxRebinds
    /\ api.sandbox = "protocol"
    /\ status # Pending

\* The events of the trace that are of these methods.
EventsOf(funcs) == SelectSeq(worker.trace, LAMBDA e : e.call.func \in funcs)

\* The events are of the stages in this order: a stage is called, then ends,
\* and the next one is called only after it has ended with success.
InOrder(events, stages) ==
    /\ Len(events) <= 2 * Len(stages)
    /\ \A i \in 1..Len(events) :
           /\ events[i].call.func = stages[(i + 1) \div 2]
           /\ i % 2 = 1 => events[i].ev = "called"
           /\ i % 2 = 0 => events[i].ev \in {"ok", "failure"}
           /\ (i % 2 = 0 /\ i < Len(events)) => events[i].ev = "ok"

Failed(events) == \E i \in 1..Len(events) : events[i].ev = "failure"

\* C18: the stages of startWorker are called in the order validate config,
\* setup heartbeat, setup middleware, setup connectors, setup worker, each
\* after the one before it has ended; no stage is called after one that
\* failed, and startWorker's Deferred fires with a failure exactly when a
\* stage failed, with success only when all five have succeeded.
C18_StartStagesInOrder ==
    LET stages == << "_validate_config", "setup_heartbeat",
                     "setup_middleware", "setup_connectors",
                     "setup_worker" >>
        events == EventsOf({ stages[i] : i \in 1..5 }) IN
    /\ InOrder(events, stages)
    /\ worker.results.startWorker = "ok" =>
           Len(events) = 10 /\ ~Failed(events)
    /\ worker.results.startWorker = "failure" => Failed(events)
    /\ Failed(events) => worker.results.startWorker \in {"pending", "failure"}

\* C18 witness: setup_connectors has failed after three stages that
\* succeeded, setup_worker was not called, and startWorker's caller has the
\* failure.
C18_Witness ==
    /\ worker.results.startWorker = "failure"
    /\ worker.hb_pub = "publisher"
    /\ Len(worker.middlewares) = MaxMiddlewares
    /\ \E i \in 1..Len(worker.trace) :
           worker.trace[i] =
               [call |-> Stage("setup_connectors", 0), ev |-> "failure"]
    /\ EventsOf({"setup_worker"}) = <<>>

\* The events of the inner method all lie between the call and the end of
\* the outer one.
Within(inner, outer) ==
    \A k \in 1..Len(worker.trace) :
        worker.trace[k].call.func = inner =>
            /\ \E i \in 1..(k - 1) :
                   worker.trace[i] = [call |-> Stage(outer, 0), ev |-> "called"]
            /\ \A j \in 1..(k - 1) :
                   worker.trace[j].call.func = outer =>
                       worker.trace[j].ev = "called"

\* Each call of the events has ended before the next one is made, and no
\* call is made after one that failed.
OneAtATime(events) ==
    \A i \in 1..Len(events) :
        /\ i % 2 = 1 => events[i].ev = "called"
        /\ i % 2 = 0 => /\ events[i].ev \in {"ok", "failure"}
                        /\ events[i].call = events[i - 1].call
        /\ (i % 2 = 0 /\ i < Len(events)) => events[i].ev = "ok"

\* C19: the stages of stopWorker are called in the order worker-specific
\* teardown, connectors, middleware, heartbeat, each after the one before it
\* has ended; within the connectors stage each connector is torn down once
\* and after the one before it, and within the middleware stage the
\* middlewares are torn down one after the other in the reverse of the
\* order the config names them.
C19_StopStagesInOrder ==
    LET stages == << "teardown_worker", "teardown_connectors",
                     "teardown_middleware", "teardown_heartbeat" >>
        connectors == EventsOf({"teardown_connector"})
        mws == EventsOf({"mw.teardown_middleware"}) IN
    /\ InOrder(EventsOf({ stages[i] : i \in 1..4 }), stages)
    /\ Within("teardown_connector", "teardown_connectors")
    /\ Within("mw.teardown_middleware", "teardown_middleware")
    /\ OneAtATime(connectors)
    /\ \A i, j \in 1..Len(connectors) :
           i # j => connectors[i] # connectors[j]
    /\ OneAtATime(mws)
    /\ Len(mws) <= 2 * Len(worker.config.middlewares)
    /\ \A i \in 1..Len(mws) :
           mws[i].call.arg =
               worker.config.middlewares[
                   Len(worker.config.middlewares) + 1 - (i + 1) \div 2]

\* C19 witness: stopWorker has ended with success after it tore down
\* MaxConnectors connectors and MaxMiddlewares middlewares and stopped the
\* heartbeat publisher.
C19_Witness ==
    /\ worker.results.stopWorker = "ok"
    /\ Len(EventsOf({"teardown_connector"})) = 2 * MaxConnectors
    /\ Len(EventsOf({"mw.teardown_middleware"})) = 2 * MaxMiddlewares
    /\ \E i \in 1..Len(worker.trace) :
           worker.trace[i] =
               [call |-> Stage("teardown_heartbeat", 0), ev |-> "ok"]
    /\ worker.results.startWorker = "ok"
    /\ worker.config.worker_name

\* C20: once stopWorker's Deferred has fired, with success or failure, each
\* of its four stages has been called, the heartbeat publisher is stopped
\* and no connector is left.
C20_TeardownBestEffort ==
    worker.results.stopWorker \in {"ok", "failure"} =>
        /\ \A f \in {"teardown_worker", "teardown_connectors",
                     "teardown_middleware", "teardown_heartbeat"} :
               EventsOf({f}) # <<>>
        /\ worker.hb_pub = "None"
        /\ worker.connectors = {}

\* C21: a call of setup_connector with a name that self.connectors has ends
\* at once with a failure (DuplicateConnectorError), builds no connector
\* and changes nothing of the worker but the history of its calls: the map
\* holds the same connectors, each as ready and as paused as before.
C21_DuplicateConnectorRaises ==
    [][\A name \in worker.connectors :
          LET call == Stage("setup_connector", name) IN
          (/\ Len(worker'.trace) > Len(worker.trace)
           /\ worker'.trace[Len(worker.trace) + 1] =
                  [call |-> call, ev |-> "called"]) =>
              /\ worker'.trace =
                     worker.trace \o << [call |-> call, ev |-> "called"],
                                        [call |-> call, ev |-> "failure"] >>
              /\ worker'.created = worker.created
              /\ worker'.connectors = worker.connectors
              /\ worker'.connector_objects = worker.connector_objects
              /\ worker'.running = NoStage]_vars

\* C21 witness: setup_connector has raised for the name of a connector that
\* was set up with success, and the connector is still the first one built,
\* ready and unpaused.
C21_Witness ==
    /\ \E i \in 1..Len(worker.trace) :
           /\ worker.trace[i] =
                  [call |-> Stage("setup_connector", 1), ev |-> "failure"]
           /\ \E j \in 1..(i - 2) :
                  worker.trace[j] =
                      [call |-> Stage("setup_connector", 1), ev |-> "ok"]
    /\ worker.connector_objects[1] =
           [id |-> 1, paused |-> FALSE, ready |-> TRUE]
    /\ worker.created = 1
    /\ worker.setups >= 1

\* At event k of the trace the method is called.
CalledAt(k, func) ==
    /\ worker.trace[k].call.func = func
    /\ worker.trace[k].ev = "called"

\* Before event k of the trace the call has ended with success.
DoneBefore(k, func) ==
    \E i \in 1..(k - 1) :
        worker.trace[i] = [call |-> Stage(func, 0), ev |-> "ok"]

Unpaused == { name \in worker.connectors :
                 ~worker.connector_objects[name].paused }

InConfiguredOrder(direction) ==
    [i \in 1..Len(worker.config.middlewares) |->
        <<worker.config.middlewares[i], direction>>]

HandlersOf(kind) ==
    LET hs == SelectSeq(worker.handled, LAMBDA h : h.message.kind = kind) IN
    [i \in 1..Len(hs) |-> <<hs[i].handler, hs[i].message.type>>]

ConsumedOf(kind) == SelectSeq(worker.consumed, LAMBDA m : m.kind = kind)

\* C24: for the events delivered so far, one handler has been called per
\* event, in the order of delivery: consume_ack, consume_nack or
\* consume_delivery_report for an event of that event_type, and
\* consume_unknown_event for any other or no event_type; nothing was raised.
C24_EventHandlerByType ==
    LET events == ConsumedOf("event") IN
    /\ worker.errors = 0
    /\ HandlersOf("event") =
           [i \in 1..Len(events) |->
               << IF events[i].type = "ack" THEN "consume_ack"
                  ELSE IF events[i].type = "nack" THEN "consume_nack"
                  ELSE IF events[i].type = "delivery_report"
                       THEN "consume_delivery_report"
                  ELSE "consume_unknown_event",
                  events[i].type >>]

\* C24 witness: an event of another event_type and an event without one
\* have both reached consume_unknown_event.
C24_Witness ==
    /\ <<"consume_unknown_event", "other">> \in
           { HandlersOf("event")[i] : i \in 1..Len(HandlersOf("event")) }
    /\ <<"consume_unknown_event", "None">> \in
           { HandlersOf("event")[i] : i \in 1..Len(HandlersOf("event")) }

RECURSIVE SessionHandlers(_)
\* The handlers these user messages are to reach, in order.
SessionHandlers(messages) ==
    IF messages = << >> THEN << >>
    ELSE LET type == Head(messages).type IN
         (IF type = "new"
          THEN << <<"new_session", type>>, <<"consume_user_message", type>> >>
          ELSE IF type = "close" THEN << <<"close_session", type>> >>
          ELSE << <<"consume_user_message", type>> >>)
             \o SessionHandlers(Tail(messages))

\* C25: for the user messages delivered so far, the handlers called are, in
\* the order of delivery: new_session and, called by it,
\* consume_user_message for session_event new; close_session for close;
\* consume_user_message alone for resume and for no session_event.
C25_SessionHandlerByEvent ==
    HandlersOf("inbound") = SessionHandlers(ConsumedOf("inbound"))

\* C25 witness: a message that opens a session and a message that resumes
\* one have been handled.
C25_Witness ==
    /\ Len(ConsumedOf("inbound")) = 2
    /\ ConsumedOf("inbound")[1].type = "new"
    /\ ConsumedOf("inbound")[2].type = "resume"
    /\ Len(HandlersOf("inbound")) = 3

\* The endpoint a call of send_to asks for: its endpoint, or its tag when
\* it names no endpoint.
Asked(call) == IF call.endpoint = "None" THEN call.tag ELSE call.endpoint

Allowed(call) ==
    \/ worker.ALLOWED_ENDPOINTS.any
    \/ Asked(call) \in worker.ALLOWED_ENDPOINTS.names

C27_ViolationStaysInSession ==
    [][/\ other' # other =>
              /\ other' \in SessionSteps(other)
              /\ <<transport, signalled, killed, kill_calls, status, written>>'
                     = <<transport, signalled, killed, kill_calls, status,
                         written>>
       /\ log_errors'["unknown_command"] > log_errors["unknown_command"] =>
              /\ kill_calls' = kill_calls + 1
              /\ transport = "pid" => signalled'
              /\ other' = other]_vars

\* C27 witness: the session with the unknown command was killed for it and
\* has ended so, and the other session has had its reply and has ended with
\* the exit code of its process.
C27_Witness ==
    /\ log_errors["unknown_command"] = 1
    /\ killed
    /\ status = None
    /\ other.status = Status(0)
    /\ other.kill_calls = 0
    /\ ~other.signalled
    /\ Len(other.written) = 2

\* C28: when a set, incr or delete of one session has been answered, the
\* store holds for every other sandbox id what it held before the command:
\* the value under each of its keys and its count of keys.
C28_NamespacedBySession ==
    \A slot \in 1..MaxInFlight :
        LET c == handler_calls[slot] IN
        (c.pc = "done" /\ c.op \in {"set", "incr", "delete"}) =>
            \A id \in SharedIds \ {c.sandbox_id} :
                /\ redis[count_key(id)] = c.before[count_key(id)]
                /\ \A key \in SharedKeys :
                       redis[sandboxed_key(id, key)]
                           = c.before[sandboxed_key(id, key)]

\* The bytes of stdout that have been delivered, in whatever batches.
Delivered == SubSeq(out_stream, 1, out_pos)

\* The positions of the newlines in a stream, and the k-th of them.
NewlinesOf(d) == { i \in 1..Len(d) : d[i] = NL }
Newline(d, k) ==
    IF k = 0 THEN 0
    ELSE CHOOSE p \in NewlinesOf(d) :
             Cardinality({ q \in NewlinesOf(d) : q < p }) = k - 1

\* The newline-terminated lines of a stream, and what follows the last.
TerminatedLines(d) ==
    [k \in 1..Cardinality(NewlinesOf(d)) |->
        SubSeq(d, Newline(d, k - 1) + 1, Newline(d, k) - 1)]
Unterminated(d) ==
    SubSeq(d, Newline(d, Cardinality(NewlinesOf(d))) + 1, Len(d))

\* The line each dispatched command was parsed from.
DispatchedLines ==
    [i \in 1..Len(pending_requests) |->
        IF pending_requests[i].line # <<>> THEN pending_requests[i].line
        ELSE <<pending_requests[i].cmd_id>> \o pending_requests[i].cmd]

\* C29: while no more than recv_limit bytes were received, the commands
\* dispatched are the newline-terminated lines of the bytes delivered so
\* far, in their order and each once, however the bytes came in batches, and
\* the bytes after the last newline are kept for the next batch; once
\* stdout has closed, what was kept has been dispatched as the last command.
C29_DispatchIgnoresBatching ==
    recv_bytes <= RecvLimit =>
        /\ out_open =>
               /\ DispatchedLines = TerminatedLines(Delivered)
               /\ chunk = Unterminated(Delivered)
        /\ ~out_open =>
               DispatchedLines =
                   TerminatedLines(Delivered)
                       \o (IF Unterminated(Delivered) = <<>> THEN <<>>
                           ELSE << Unterminated(Delivered) >>)

\* C29 witness: the first line was dispatched and a batch has ended inside
\* the second, of which more than one byte is kept.
C29_Witness ==
    /\ out_open
    /\ recv_bytes <= RecvLimit
    /\ Len(pending_requests) = 1
    /\ Len(chunk) >= 2
    /\ out_pos < Len(out_stream)

\* The replies written to the child, in the order they were written.
ReplySeq == SelectSeq(written, LAMBDA command : command.reply)

\* C30: a command whose handler answers at once (log.info) has its reply
\* written when it is dispatched, whatever the commands before it wait for;
\* and the replies written are, for each cmd_id and command name, as many as
\* the requests of that cmd_id and name whose handler has returned a reply.
C30_DispatchesIndependent ==
    /\ \A i \in 1..Len(pending_requests) :
           pending_requests[i].handler = <<"i">> =>
               /\ pending_requests[i].state = "succeeded"
               /\ \E k \in 1..Len(ReplySeq) :
                      /\ ReplySeq[k].cmd_id = pending_requests[i].cmd_id
                      /\ ReplySeq[k].cmd = pending_requests[i].cmd
    /\ \A k \in 1..Len(ReplySeq) :
           Cardinality({ j \in 1..Len(ReplySeq) :
                           /\ ReplySeq[j].cmd_id = ReplySeq[k].cmd_id
                           /\ ReplySeq[j].cmd = ReplySeq[k].cmd })
               = Cardinality({ i \in 1..Len(pending_requests) :
                                 /\ pending_requests[i].cmd_id = ReplySeq[k].cmd_id
                                 /\ pending_requests[i].cmd = ReplySeq[k].cmd
                                 /\ pending_requests[i].state = "succeeded"
                                 /\ pending_requests[i].handler
                                        # <<"unknown_request">> })

\* C30 witness: the reply to the second command is written while the first
\* command waits for the store, and the reply to the first is written after
\* it.
C30_Witness ==
    /\ Len(pending_requests) = 2
    /\ pending_requests[1].handler = <<"g">>
    /\ pending_requests[1].state = "succeeded"
    /\ pending_requests[2].handler = <<"i">>
    /\ Len(ReplySeq) = 2
    /\ ReplySeq[1].cmd_id = pending_requests[2].cmd_id
    /\ ReplySeq[2].cmd_id = pending_requests[1].cmd_id
    /\ ReplySeq[1].cmd_id # ReplySeq[2].cmd_id

\* C31: at the step that closes stdout, a line left in the buffer is
\* dispatched as one more command, the last one, and the buffer is emptied;
\* with an empty buffer the step dispatches nothing; and once stdout is
\* closed no command is dispatched any more.
C31_ClosureFlushesBuffer ==
    [][/\ (out_open /\ ~out_open') =>
              /\ chunk' = <<>>
              /\ chunk # <<>> => DispatchedLines' = Append(DispatchedLines, chunk)
              /\ chunk = <<>> => DispatchedLines' = DispatchedLines
       /\ ~out_open => DispatchedLines' = DispatchedLines]_vars

\* C31 witness: stdout has closed in the middle of the second line, and what
\* was delivered of that line is the last command dispatched.
C31_Witness ==
    /\ ~out_open
    /\ chunk = <<>>
    /\ Unterminated(Delivered) # <<>>
    /\ Len(pending_requests) = 2
    /\ DispatchedLines[2] = Unterminated(Delivered)

\* C32: a protocol that was constructed and not spawned has no timer, so
\* that the timer never calls kill before the process was launched.
C32_TimerStartedBySpawn ==
    transport = "None" => timeout_task \notin {"active", "called"}

\* processEnded has been called.
Ended == requests_done.state # "none"

\* C33: processEnded cancels the timer that is still pending; in every state
\* after processEnded the timer is not pending; and a timer that has fired
\* or was cancelled stays so, so that it calls kill at most once and never
\* after processEnded.
C33_TimerCancelledAtEnd ==
    [][/\ (~Ended /\ Ended' /\ timeout_task = "active") =>
              timeout_task' = "cancelled"
       /\ Ended' => timeout_task' # "active"
       /\ timeout_task # "active" => timeout_task' = timeout_task
       /\ (Ended /\ kill_calls' > kill_calls) => timeout_task' = timeout_task]_vars

\* C33 witness: the process has exited on its own before the timer came
\* due, and processEnded has cancelled the timer.
C33_Witness ==
    /\ Ended
    /\ ~killed
    /\ kill_calls = 0
    /\ timeout_task = "cancelled"
    /\ reason.cls = "ProcessDone"

\* The bytes of the batch a step delivers, on stdout and on stderr.
OutBatch == SubSeq(out_stream, out_pos + 1, out_pos')
ErrBatch == SubSeq(err_stream, err_pos + 1, err_pos')

\* The lines a step dispatches, and how many of them are no command of
\* their resource.
NewLines ==
    SubSeq(DispatchedLines', Len(DispatchedLines) + 1, Len(DispatchedLines'))
NewUnknown ==
    Cardinality({ i \in (Len(pending_requests) + 1)..Len(pending_requests') :
                    pending_requests'[i].handler = <<"unknown_request">> })

\* C34: every batch adds its length to recv_bytes, also the batch that is
\* discarded, so that a quota once exceeded stays exceeded. A batch that
\* leaves recv_bytes at or below recv_limit, the limit itself included, is
\* processed (its lines dispatched or logged, its tail buffered) and kill is
\* called only for the unknown commands among its lines; a batch that leaves
\* recv_bytes above recv_limit is discarded and kill is called once.
C34_QuotaIsStrictBound ==
    [][/\ recv_bytes' = recv_bytes + Len(OutBatch) + Len(ErrBatch)
       /\ recv_bytes > RecvLimit => recv_bytes' > RecvLimit
       /\ (recv_bytes' # recv_bytes /\ recv_bytes' <= RecvLimit) =>
              /\ NewLines = TerminatedLines(chunk \o OutBatch)
              /\ chunk' = Unterminated(chunk \o OutBatch)
              /\ log_errors'["stderr"] =
                     log_errors["stderr"] + Cardinality(NewlinesOf(ErrBatch))
              /\ error_chunk' = Unterminated(error_chunk \o ErrBatch)
              /\ kill_calls' = kill_calls + NewUnknown
       /\ (recv_bytes' # recv_bytes /\ recv_bytes' > RecvLimit) =>
              /\ NewLines = <<>>
              /\ chunk' = chunk
              /\ log_errors'["stderr"] = log_errors["stderr"]
              /\ error_chunk' = error_chunk
              /\ kill_calls' = kill_calls + 1]_vars

\* C34 witness: the bytes received are recv_limit exactly, the last batch was
\* processed and kill was never called; the child has more to write.
C34_Witness ==
    /\ recv_bytes = RecvLimit
    /\ kill_calls = 0
    /\ ~killed
    /\ Len(pending_requests) >= 1
    /\ DispatchedLines = TerminatedLines(Delivered)
    /\ out_pos + err_pos = RecvLimit
    /\ out_pos + err_pos < Len(out_stream) + Len(err_stream)

\* C35: for an env that has neither of the limiter's two variables,
\* _override_child_env and then _restore_child_env give an env in which
\* PYTHONPATH is what it was (unset when it was unset), the limiter's two
\* variables are unset and every other variable is what it was.
C35_ChildEnvRoundTrip ==
    (/\ child_env.step = "restored"
     /\ child_env.given[SANDBOXED_PYTHONPATH] = Unset
     /\ child_env.given[SANDBOX_RLIMITS] = Unset) =>
        /\ child_env.env["PYTHONPATH"] = child_env.given["PYTHONPATH"]
        /\ child_env.env[SANDBOXED_PYTHONPATH] = Unset
        /\ child_env.env[SANDBOX_RLIMITS] = Unset
        /\ \A name \in EnvNames \ {"PYTHONPATH", SANDBOXED_PYTHONPATH,
                                   SANDBOX_RLIMITS} :
               child_env.env[name] = child_env.given[name]

\* C35 witness: an env with a PYTHONPATH and a variable of its own, and
\* without the limiter's, has been overridden and restored.
C35_Witness ==
    /\ child_env.step = "restored"
    /\ child_env.given = [NoEnv EXCEPT !["PYTHONPATH"] = "/pp1",
                                       !["TEST_VAR"] = "x"]
    /\ child_env.env = child_env.given

\* C36: done has fired only when started has, and only once processEnded
\* was called; processEnded fires started with the failure when it had not
\* fired; and the result either signal has fired with never changes.
C36_StartedBeforeDone ==
    [][/\ fired(done') => (fired(started') /\ Ended')
       /\ (~fired(done) /\ fired(done')) => (fired(started) \/ ~Ended)
       /\ (~Ended /\ Ended' /\ ~fired(started)) =>
              started'.result = StartFailure
       /\ (~Ended /\ Ended' /\ fired(started)) => started' = started
       /\ fired(started) => started'.result = started.result
       /\ fired(done) => done'.result = done.result
       /\ \A d \in DOMAIN deferreds : deferreds'[d].fires <= 1]_vars

\* C36 witness: the process ended before connectionMade; processEnded has
\* fired started with the failure and then done, and an observer of each has
\* been called once.
C36_Witness ==
    /\ started.result = StartFailure
    /\ fired(done)
    /\ \E d \in DOMAIN deferreds :
           /\ deferreds[d].sig = "started"
           /\ deferreds[d].owner = "observer"
           /\ deferreds[d].fires = 1
    /\ \E d \in DOMAIN deferreds :
           /\ deferreds[d].sig = "done"
           /\ deferreds[d].fires = 1

\* C37: while stdout is open, a step that ends with recv_bytes above
\* recv_limit leaves the stdout buffer as it was and dispatches nothing; and
\* when stdout closes with the quota exceeded, a line left in the buffer is
\* dispatched as the last command.
C37_QuotaKeepsBuffer ==
    [][/\ (recv_bytes' > RecvLimit /\ out_open') =>
              /\ chunk' = chunk
              /\ DispatchedLines' = DispatchedLines
       /\ (recv_bytes > RecvLimit /\ out_open /\ ~out_open' /\ chunk # <<>>) =>
              /\ DispatchedLines' = Append(DispatchedLines, chunk)
              /\ chunk' = <<>>]_vars

\* C37 witness: the first line and the start of the second were received
\* within the quota, the rest of the second line was discarded, and at the
\* closure of stdout the start of the second line was dispatched as the
\* second command.
C37_Witness ==
    /\ ~out_open
    /\ recv_bytes > RecvLimit
    /\ out_pos = Len(out_stream)
    /\ Len(pending_requests) = 2
    /\ DispatchedLines[1] = TerminatedLines(out_stream)[1]
    /\ Len(DispatchedLines[2]) \in 1..(Len(TerminatedLines(out_stream)[2]) - 1)
    /\ DispatchedLines[2] =
           SubSeq(TerminatedLines(out_stream)[2], 1, Len(DispatchedLines[2]))

\* The log.info commands among the lines a step dispatches.
NewInfo ==
    Cardinality({ i \in (Len(pending_requests) + 1)..Len(pending_requests') :
                    pending_requests'[i].handler = <<"i">> })

\* C38: a batch of stdout within the quota that arrives after kill was
\* called for an unknown command, or that holds the unknown command itself,
\* is handled as any other: every line of it is dispatched, those after the
\* unknown command too, each log.info among them is logged and replied to,
\* and each command of the store is handed to its handler.
C38_KillStopsNoHandling ==
    [][(/\ out_pos' > out_pos
        /\ recv_bytes' <= RecvLimit
        /\ log_errors'["unknown_command"] > 0) =>
           /\ NewLines = TerminatedLines(chunk \o OutBatch)
           /\ chunk' = Unterminated(chunk \o OutBatch)
           /\ log_info' = log_info + NewInfo
           /\ Len(ReplySeq') = Len(ReplySeq) + NewInfo
           /\ \A i \in (Len(pending_requests) + 1)..Len(pending_requests') :
                  /\ pending_requests'[i].handler = <<"i">> =>
                         pending_requests'[i].state = "succeeded"
                  /\ pending_requests'[i].handler = <<"g">> =>
                         pending_requests'[i].state = "pending"]_vars

\* C38 witness: the first line was no command and kill has signalled the
\* process; the log.info of the second line was logged and replied to while
\* the process had not been reaped.
C38_Witness ==
    /\ transport = "pid"
    /\ killed
    /\ Len(pending_requests) = 2
    /\ pending_requests[1].handler = <<"unknown_request">>
    /\ pending_requests[2].handler = <<"i">>
    /\ pending_requests[2].state = "succeeded"
    /\ log_info = 1
    /\ Len(ReplySeq) = 1
    /\ ReplySeq[1].cmd_id = pending_requests[2].cmd_id

\* In the store db the tracked count of a session is the number of its keys
\* that hold a value.
Balanced(db, sandbox_id) ==
    Count(db, sandbox_id) =
        Cardinality({ k \in Keys : db[sandboxed_key(sandbox_id, k)] # Nil })

\* C39: in a session that sends each command after the reply to the one
\* before, the tracked count is the number of keys stored whenever no
\* command is waiting for its reply; a set, get, incr or delete that is
\* answered with success=true or with "Too many keys" takes a store in
\* which that is so to one in which it is so; and a delete lowers the count
\* by one when the key held a value, reporting existed, and leaves it
\* unchanged when not.
C39_CountIsStoredKeys ==
    [][/\ reply_queue = <<>> => \A id \in SandboxIds : Balanced(redis, id)
       /\ \A slot \in DOMAIN handler_calls :
              LET c == handler_calls[slot]
                  key == sandboxed_key(c.sandbox_id, c.key)
                  existed == c.before[key] # Nil IN
              (/\ \E op \in {"set", "get", "incr", "delete"} : Returns(slot, op)
               /\ \A r \in handler_calls'[slot].reply :
                      r.success \/ r = too_many_keys
               /\ Balanced(c.before, c.sandbox_id)) =>
                  /\ Balanced(redis', c.sandbox_id)
                  /\ c.op = "delete" =>
                         /\ Count(redis', c.sandbox_id) =
                                Count(c.before, c.sandbox_id)
                                    - (IF existed THEN 1 ELSE 0)
                         /\ handler_calls'[slot].reply =
                                {Reply(TRUE, "", {}, {existed})}]_vars

\* C39 witness: after a set that was counted, the delete of its key has
\* replied existed and the count is zero again, with no key stored.
C39_Witness ==
    \E slot \in DOMAIN handler_calls :
        LET c == handler_calls[slot] IN
        /\ c.op = "delete"
        /\ c.pc = "done"
        /\ c.reply = {Reply(TRUE, "", {}, {TRUE})}
        /\ Count(c.before, c.sandbox_id) = 1
        /\ Balanced(c.before, c.sandbox_id)
        /\ Count(redis, c.sandbox_id) = 0
        /\ StoredKeys(c.sandbox_id) = {}

\* A command was dispatched whose handler has not settled.
Unsettled == \E i \in Requests : ~Settled(i)

\* C40: once processEnded was called, while the handler of a dispatched
\* command is unsettled the timer is not pending, done has not fired and the
\* run has not returned, and the only step the run can take is a handler
\* settling; done fires, and the run returns, only with every handler
\* settled.
C40_RunWaitsForHandlers ==
    [][/\ (Ended /\ Unsettled) =>
              /\ timeout_task # "active"
              /\ ~fired(done)
              /\ status = Pending
              /\ \E i \in Requests : ~Settled(i) /\ pending_requests'[i].state # "pending"
       /\ (Ended' /\ Unsettled') => (~fired(done') /\ status' = Pending)
       /\ (~fired(done) /\ fired(done')) => ~Unsettled']_vars

\* C40 witness: the process was killed by the timeout and processEnded was
\* called with the signal, and the run has not returned, since the get that
\* was dispatched waits for the store.
C40_Witness ==
    /\ Ended
    /\ timeout_task = "called"
    /\ killed
    /\ reason = ProcessTerminated(0, TRUE)
    /\ Unsettled
    /\ ~fired(done)
    /\ status = Pending

====
